---- MODULE Spec2Model ----
(***************************************************************************)
(* StockSense risk-prediction pipeline: the StockSenseModel artifact       *)
(* life cycle (model.py), the StockSensePredictor service with its         *)
(* heuristic fallback (predictor.py) and the StockSenseExplainer loader    *)
(* (explainer.py).                                                         *)
(*                                                                         *)
(* Numbers are exact rationals <<n, d>> in lowest terms with d >= 0; the   *)
(* three IEEE specials pandas/numpy produce are <<1,0>> (inf), <<-1,0>>    *)
(* (-inf) and <<0,0>> (NaN).  A DataFrame is [cols, rows]: a set of column *)
(* names and a sequence of rows, each a function on cols.  A dict is a     *)
(* function whose DOMAIN is its key set.                                   *)
(***************************************************************************)
EXTENDS Integers, Sequences, FiniteSets, TLC

VARIABLES
    disk,     \* content of the artifact file at the service's model_path
    svc,      \* StockSensePredictor: [live, model_data]
    expl,     \* StockSenseExplainer: [live, model_data, feature_importance]
    mdl,      \* a StockSenseModel instance: model, scaler, encoders, feature_names, is_trained
    done,     \* which of train and load_model have completed on that instance
    now,      \* the clock datetime.now() reads
    last,     \* the last call made and what it gave back to its caller
    memo,     \* the object the predictor last loaded, and an earlier
              \* predict_single_product call kept for comparison
    hist,     \* what the calls on the StockSenseModel instance have done so far
    retry,    \* the retry_on_failure call in progress: its loop position,
              \* attempt number, the attempts made and the sleeps taken
    jobs      \* the threads running train() on the StockSenseModel instance:
              \* each one's position in train and its local variables

vars == <<disk, svc, expl, mdl, done, now, last, memo, hist, retry, jobs>>

(***************************************************************************)
(* Bounds of the model                                                     *)
(***************************************************************************)
MaxBatch == 3
MaxClock == 1

(***************************************************************************)
(* Float arithmetic as exact rationals with inf / NaN                      *)
(***************************************************************************)
Abs(x) == IF x < 0 THEN -x ELSE x
Sgn(x) == IF x < 0 THEN -1 ELSE IF x > 0 THEN 1 ELSE 0

RECURSIVE GCD(_, _)
GCD(a, b) == IF b = 0 THEN a ELSE GCD(b, a % b)

Norm(n, d) ==
    IF d = 0 THEN <<Sgn(n), 0>>
    ELSE LET g == GCD(Abs(n), Abs(d))
         IN  <<(Sgn(d) * n) \div g, Abs(d) \div g>>

Q(n) == <<n, 1>>
NaN == <<0, 0>>
PosInf == <<1, 0>>
NegInf == <<-1, 0>>
IsNaN(a) == a = NaN
IsFinite(a) == a[2] # 0

RDiv(a, b) == Norm(a[1] * b[2], a[2] * b[1])
RMul(a, b) == Norm(a[1] * b[1], a[2] * b[2])
RSub(a, b) == Norm(a[1] * b[2] - b[1] * a[2], a[2] * b[2])
RAdd(a, b) == Norm(a[1] * b[2] + b[1] * a[2], a[2] * b[2])

\* a < b as IEEE compares: FALSE as soon as one side is NaN
RLt(a, b) ==
    /\ ~IsNaN(a)
    /\ ~IsNaN(b)
    /\ a # b
    /\ CASE a = NegInf -> TRUE
         [] b = PosInf -> TRUE
         [] a = PosInf -> FALSE
         [] b = NegInf -> FALSE
         [] OTHER -> a[1] * b[2] < b[1] * a[2]
RGt(a, b) == RLt(b, a)
RLe(a, b) == ~IsNaN(a) /\ ~IsNaN(b) /\ (a = b \/ RLt(a, b))

\* Python's builtin max(a, b) / min(a, b): the first argument is kept unless
\* the second compares strictly greater / smaller
PyMax(a, b) == IF RGt(b, a) THEN b ELSE a
PyMin(a, b) == IF RLt(b, a) THEN b ELSE a

(***************************************************************************)
(* dicts and DataFrames                                                    *)
(***************************************************************************)
StringCols == {"product_id", "category", "subcategory", "price_category", "demand_category"}
NA == "<NA>"
Missing(c) == IF c \in StringCols THEN NA ELSE NaN

\* dict.get(k, default) and Series.get(k, default)
Get(d, k, default) == IF k \in DOMAIN d THEN d[k] ELSE default

\* pd.DataFrame(list of dicts): the columns are the union of the keys, a key
\* a dict lacks is a missing value in its row
FrameOfDicts(ds) ==
    LET cols == UNION {DOMAIN ds[i] : i \in DOMAIN ds}
    IN  [cols |-> cols,
         rows |-> [i \in DOMAIN ds |->
                     [c \in cols |-> IF c \in DOMAIN ds[i] THEN ds[i][c] ELSE Missing(c)]]]

\* df[c] = F(row), row by row
SetCol(df, c, F(_)) ==
    [cols |-> df.cols \cup {c},
     rows |-> [i \in DOMAIN df.rows |->
                 [k \in df.cols \cup {c} |->
                    IF k = c THEN F(df.rows[i]) ELSE df.rows[i][k]]]]

\* if c not in df.columns: df[c] = F(row)
DefaultCol(df, c, F(_)) == IF c \in df.cols THEN df ELSE SetCol(df, c, F)

RECURSIVE SeqSum(_)
SeqSum(s) == IF s = <<>> THEN 0 ELSE Head(s) + SeqSum(Tail(s))

RECURSIVE SeqMax(_)
SeqMax(s) == IF Len(s) = 1 THEN s[1]
             ELSE LET m == SeqMax(Tail(s)) IN IF s[1] > m THEN s[1] ELSE m

RECURSIVE Flatten(_)
Flatten(ss) == IF ss = <<>> THEN <<>> ELSE Head(ss) \o Flatten(Tail(ss))

RECURSIVE SetToSeq(_)
SetToSeq(S) == IF S = {} THEN <<>>
               ELSE LET x == CHOOSE y \in S : TRUE IN <<x>> \o SetToSeq(S \ {x})

ISqrtFloor(k) == CHOOSE r \in 0..k : r * r <= k /\ k < (r + 1) * (r + 1)
\* square root of a non-negative rational: exact when it is rational, else
\* rounded down to a multiple of 1/d
SqrtQ(v) == Norm(ISqrtFloor(v[1] * v[2]), v[2])

(***************************************************************************)
(* StockSensePredictor.prepare_prediction_data                             *)
(***************************************************************************)
NoSales == [given |-> FALSE]
AggCols == {"avg_daily_demand", "demand_std", "max_daily_demand", "total_stockouts"}
SuffixX == [avg_daily_demand |-> "avg_daily_demand_x", demand_std |-> "demand_std_x",
            max_daily_demand |-> "max_daily_demand_x", total_stockouts |-> "total_stockouts_x"]
SuffixY == [avg_daily_demand |-> "avg_daily_demand_y", demand_std |-> "demand_std_y",
            max_daily_demand |-> "max_daily_demand_y", total_stockouts |-> "total_stockouts_y"]

\* the daily_demand observations of one product, in table order
DemandsOf(sh, pid) ==
    LET idx == {i \in DOMAIN sh : sh[i].product_id = pid}
        F[i \in 0..Len(sh)] ==
            IF i = 0 THEN <<>>
            ELSE IF i \in idx THEN Append(F[i - 1], sh[i].daily_demand) ELSE F[i - 1]
    IN  F[Len(sh)]

StockoutsOf(sh, pid) ==
    LET F[i \in 0..Len(sh)] ==
            IF i = 0 THEN 0
            ELSE IF sh[i].product_id = pid THEN F[i - 1] + sh[i].stockout ELSE F[i - 1]
    IN  F[Len(sh)]

\* sample standard deviation (ddof = 1): NaN for a single observation
SampleStd(obs) ==
    LET n == Len(obs)
        mean == Norm(SeqSum(obs), n)
        sq == [i \in DOMAIN obs |-> RMul(RSub(Q(obs[i]), mean), RSub(Q(obs[i]), mean))]
        F[i \in 0..n] == IF i = 0 THEN Q(0) ELSE RAdd(F[i - 1], sq[i])
    IN  IF n < 2 THEN NaN ELSE SqrtQ(RDiv(F[n], Q(n - 1)))

\* sales_history.groupby('product_id').agg(mean, std, max, sum): one row per
\* distinct product_id
SalesAgg(sh) ==
    {[product_id |-> pid,
      avg_daily_demand |-> Norm(SeqSum(DemandsOf(sh, pid)), Len(DemandsOf(sh, pid))),
      demand_std |-> SampleStd(DemandsOf(sh, pid)),
      max_daily_demand |-> Q(SeqMax(DemandsOf(sh, pid))),
      total_stockouts |-> Q(StockoutsOf(sh, pid))] : pid \in {sh[i].product_id : i \in DOMAIN sh}}

\* df.merge(right, on='product_id', how='left'): every left row once per
\* matching right row, or once with missing values when none matches;
\* overlapping column names get the suffixes _x and _y
MergeLeft(df, right) ==
    LET overlap == df.cols \cap AggCols
        lname(c) == IF c \in overlap THEN SuffixX[c] ELSE c
        rname(c) == IF c \in overlap THEN SuffixY[c] ELSE c
        cols == {lname(c) : c \in df.cols} \cup {rname(c) : c \in AggCols}
        joined(l, r) ==
            [k \in cols |->
                IF \E c \in df.cols : lname(c) = k
                THEN l[CHOOSE c \in df.cols : lname(c) = k]
                ELSE r[CHOOSE c \in AggCols : rname(c) = k]]
        nomatch == [c \in AggCols |-> NaN]
        rowsOf(l) ==
            LET ms == {r \in right : r.product_id = l["product_id"]}
            IN  IF ms = {} THEN <<joined(l, nomatch)>>
                ELSE LET mseq == SetToSeq(ms)
                     IN  [j \in DOMAIN mseq |-> joined(l, mseq[j])]
    IN  [cols |-> cols,
         rows |-> Flatten([i \in DOMAIN df.rows |-> rowsOf(df.rows[i])])]

Raised(err, at) == [raised |-> TRUE, err |-> err, at |-> at]

\* a preparation that assigns the default demand whether or not the
\* inventory has the column
PreparePredictionDataOverwriting(inventory_data, sales_history) ==
    LET df0 == inventory_data
        needKey == sales_history.given /\ "product_id" \notin df0.cols
        df1 == IF sales_history.given
               THEN MergeLeft(df0, SalesAgg(sales_history.rows))
               ELSE df0
        df2 == SetCol(df1, "avg_daily_demand", LAMBDA r : Q(10))
        df3 == DefaultCol(df2, "demand_std", LAMBDA r : Q(2))
        df4 == DefaultCol(df3, "max_daily_demand", LAMBDA r : RMul(r["avg_daily_demand"], Q(2)))
        df5 == DefaultCol(df4, "total_stockouts", LAMBDA r : Q(0))
        df6 == SetCol(df5, "demand_variability",
                      LAMBDA r : RDiv(r["demand_std"], r["avg_daily_demand"]))
        df7 == SetCol(df6, "stock_coverage_days",
                      LAMBDA r : RDiv(r["current_stock"], r["avg_daily_demand"]))
        df8 == SetCol(df7, "stockout_rate", LAMBDA r : RDiv(r["total_stockouts"], Q(365)))
        df9 == DefaultCol(df8, "price", LAMBDA r : Q(50))
        df10 == DefaultCol(df9, "category", LAMBDA r : "General")
        df11 == DefaultCol(df10, "subcategory", LAMBDA r : "General")
        df12 == DefaultCol(df11, "seasonal_factor", LAMBDA r : Q(1))
        df13 == DefaultCol(df12, "weekend_sales_ratio", LAMBDA r : <<1, 2>>)
        df14 == DefaultCol(df13, "holiday_sales_ratio", LAMBDA r : <<1, 2>>)
    IN  IF needKey THEN Raised("KeyError", "prepare")
        ELSE IF "current_stock" \notin df5.cols THEN Raised("KeyError", "prepare")
        ELSE [raised |-> FALSE, df |-> df14]

\* prepare_prediction_data(inventory_data, sales_history): raised, or the
\* prepared frame
PreparePredictionData(inventory_data, sales_history) ==
    LET df0 == inventory_data
        needKey == sales_history.given /\ "product_id" \notin df0.cols
        df1 == IF sales_history.given
               THEN MergeLeft(df0, SalesAgg(sales_history.rows))
               ELSE df0
        df2 == DefaultCol(df1, "avg_daily_demand", LAMBDA r : Q(10))
        df3 == DefaultCol(df2, "demand_std", LAMBDA r : Q(2))
        df4 == DefaultCol(df3, "max_daily_demand", LAMBDA r : RMul(r["avg_daily_demand"], Q(2)))
        df5 == DefaultCol(df4, "total_stockouts", LAMBDA r : Q(0))
        df6 == SetCol(df5, "demand_variability",
                      LAMBDA r : RDiv(r["demand_std"], r["avg_daily_demand"]))
        df7 == SetCol(df6, "stock_coverage_days",
                      LAMBDA r : RDiv(r["current_stock"], r["avg_daily_demand"]))
        df8 == SetCol(df7, "stockout_rate", LAMBDA r : RDiv(r["total_stockouts"], Q(365)))
        df9 == DefaultCol(df8, "price", LAMBDA r : Q(50))
        df10 == DefaultCol(df9, "category", LAMBDA r : "General")
        df11 == DefaultCol(df10, "subcategory", LAMBDA r : "General")
        df12 == DefaultCol(df11, "seasonal_factor", LAMBDA r : Q(1))
        df13 == DefaultCol(df12, "weekend_sales_ratio", LAMBDA r : <<1, 2>>)
        df14 == DefaultCol(df13, "holiday_sales_ratio", LAMBDA r : <<1, 2>>)
    IN  IF needKey THEN Raised("KeyError", "prepare")
        ELSE IF "current_stock" \notin df5.cols THEN Raised("KeyError", "prepare")
        ELSE [raised |-> FALSE, df |-> df14]

(***************************************************************************)
(* StockSenseModel.engineer_features                                       *)
(***************************************************************************)
\* insertion sort of rationals, ascending (no NaN among them)
RECURSIVE SortQ(_)
SortQ(s) ==
    IF s = <<>> THEN <<>>
    ELSE LET rest == SortQ(Tail(s))
             k == Cardinality({i \in DOMAIN rest : RLt(rest[i], Head(s))})
         IN  SubSeq(rest, 1, k) \o <<Head(s)>> \o SubSeq(rest, k + 1, Len(rest))

\* Series.median(): missing values skipped, NaN when nothing is left
Median(vals) ==
    LET s == SortQ(SelectSeq(vals, LAMBDA v : ~IsNaN(v)))
        n == Len(s)
    IN  IF n = 0 THEN NaN
        ELSE IF n % 2 = 1 THEN s[(n + 1) \div 2]
        ELSE RDiv(RAdd(s[n \div 2], s[n \div 2 + 1]), Q(2))

\* pd.cut(x, bins=[0, 20, 100, 500, inf]): right-closed intervals, a value
\* outside them (or missing) has no category
PriceCategory(x) ==
    IF RLt(Q(0), x) /\ RLe(x, Q(20)) THEN "Low"
    ELSE IF RLt(Q(20), x) /\ RLe(x, Q(100)) THEN "Medium"
    ELSE IF RLt(Q(100), x) /\ RLe(x, Q(500)) THEN "High"
    ELSE IF RLt(Q(500), x) /\ RLe(x, PosInf) THEN "Premium"
    ELSE NA

\* pd.cut(x, bins=[0, 10, 50, 100, inf])
DemandCategory(x) ==
    IF RLt(Q(0), x) /\ RLe(x, Q(10)) THEN "Low"
    ELSE IF RLt(Q(10), x) /\ RLe(x, Q(50)) THEN "Medium"
    ELSE IF RLt(Q(50), x) /\ RLe(x, Q(100)) THEN "High"
    ELSE IF RLt(Q(100), x) /\ RLe(x, PosInf) THEN "Very High"
    ELSE NA

Flag(b) == IF b THEN Q(1) ELSE Q(0)

\* the columns engineer_features reads, in the order it reads them
EngineerReads == <<"demand_variability", "price", "avg_daily_demand", "total_stockouts",
                   "supplier_lead_time", "seasonal_factor", "stock_coverage_days">>

EngineerFeatures(data) ==
    LET med == Median([i \in DOMAIN data.rows |-> data.rows[i]["avg_daily_demand"]])
        d1 == SetCol(data, "demand_variability",
                     LAMBDA r : IF IsNaN(r["demand_variability"]) THEN Q(0)
                                ELSE r["demand_variability"])
        d2 == SetCol(d1, "price_category", LAMBDA r : PriceCategory(r["price"]))
        d3 == SetCol(d2, "demand_category", LAMBDA r : DemandCategory(r["avg_daily_demand"]))
        d4 == SetCol(d3, "stockout_rate", LAMBDA r : RDiv(r["total_stockouts"], Q(365)))
        d5 == SetCol(d4, "is_fast_moving", LAMBDA r : Flag(RGt(r["avg_daily_demand"], med)))
        d6 == SetCol(d5, "lead_time_risk", LAMBDA r : Flag(RGt(r["supplier_lead_time"], Q(7))))
        d7 == SetCol(d6, "is_seasonal", LAMBDA r : Flag(RGt(r["seasonal_factor"], <<3, 2>>)))
        d8 == SetCol(d7, "stock_health_score",
                     LAMBDA r : RDiv(r["stock_coverage_days"], r["supplier_lead_time"]))
    IN  IF \E i \in DOMAIN EngineerReads : EngineerReads[i] \notin data.cols
        THEN Raised("KeyError", "engineer_features")
        ELSE [raised |-> FALSE, df |-> d8]

(***************************************************************************)
(* StockSenseModel.prepare_features                                        *)
(***************************************************************************)
categorical_cols == <<"category", "subcategory", "price_category", "demand_category">>

EncodedName == [category |-> "category_encoded", subcategory |-> "subcategory_encoded",
                price_category |-> "price_category_encoded",
                demand_category |-> "demand_category_encoded"]

feature_cols ==
    <<"price", "supplier_lead_time", "minimum_stock_level", "seasonal_factor",
      "avg_daily_demand", "demand_std", "max_daily_demand", "total_stockouts",
      "weekend_sales_ratio", "holiday_sales_ratio", "current_stock",
      "days_since_restock", "demand_variability", "stock_coverage_days",
      "category_encoded", "subcategory_encoded", "price_category_encoded",
      "demand_category_encoded", "stockout_rate", "is_fast_moving",
      "lead_time_risk", "is_seasonal", "stock_health_score">>

\* lexicographic order of the labels that occur, as np.unique sorts them
StrRank == [Electronics |-> 1, General |-> 2, Grocery |-> 3, High |-> 4, Low |-> 5,
            Medium |-> 6, Premium |-> 7, Toys |-> 8, VeryHigh |-> 9]
RankOf(s) == IF s = "Very High" THEN StrRank["VeryHigh"] ELSE StrRank[s]

RECURSIVE SortLabels(_)
SortLabels(S) ==
    IF S = {} THEN <<>>
    ELSE LET x == CHOOSE y \in S : \A z \in S : RankOf(y) <= RankOf(z)
         IN  <<x>> \o SortLabels(S \ {x})

\* self.encoders: a dict from column name to LabelEncoder, here a function
\* on the four categorical columns whose entry says whether the key is there
NoEncoder == [present |-> FALSE, fitted |-> FALSE, classes |-> <<>>]
UnfittedEncoder == [present |-> TRUE, fitted |-> FALSE, classes |-> <<>>]
NoEncoders == [c \in {categorical_cols[i] : i \in DOMAIN categorical_cols} |-> NoEncoder]

\* LabelEncoder.fit: classes_ = the sorted distinct values
FitEncoder(values) ==
    [present |-> TRUE, fitted |-> TRUE,
     classes |-> SortLabels({values[i] : i \in DOMAIN values})]

\* an encoding that gives an unseen value the code of the first class
EncodeValueFirstClass(enc, v) ==
    IF \E i \in DOMAIN enc.classes : enc.classes[i] = v
    THEN Q((CHOOSE i \in DOMAIN enc.classes : enc.classes[i] = v) - 1)
    ELSE Q(0)

\* the code of a value: its index (from 0) in classes_, -1 when unseen
EncodeValue(enc, v) ==
    IF \E i \in DOMAIN enc.classes : enc.classes[i] = v
    THEN Q((CHOOSE i \in DOMAIN enc.classes : enc.classes[i] = v) - 1)
    ELSE Q(-1)

Column(df, c) == [i \in DOMAIN df.rows |-> df.rows[i][c]]
\* one turn of the loop with an encoder that, at inference, adds the labels
\* it has not seen to its classes after encoding them
EncodeStepLearning(st, col, fit_encoders) ==
    IF st.raised THEN st
    ELSE IF fit_encoders
    THEN LET e1 == IF st.encoders[col].present THEN st.encoders
                   ELSE [st.encoders EXCEPT ![col] = UnfittedEncoder]
         IN  IF col \notin st.df.cols
             THEN [st EXCEPT !.raised = TRUE, !.err = "KeyError", !.encoders = e1]
             ELSE IF \E i \in DOMAIN st.df.rows : st.df.rows[i][col] = NA
             THEN [st EXCEPT !.raised = TRUE, !.err = "TypeError", !.encoders = e1]
             ELSE LET enc == FitEncoder(Column(st.df, col))
                  IN  [st EXCEPT
                         !.encoders = [e1 EXCEPT ![col] = enc],
                         !.df = SetCol(st.df, EncodedName[col],
                                       LAMBDA r : EncodeValue(enc, r[col]))]
    ELSE IF ~st.encoders[col].present THEN st
    ELSE IF col \notin st.df.cols THEN [st EXCEPT !.raised = TRUE, !.err = "KeyError"]
    ELSE IF ~st.encoders[col].fitted
    THEN [st EXCEPT !.raised = TRUE, !.err = "AttributeError"]
    ELSE LET known == {st.encoders[col].classes[i] : i \in DOMAIN st.encoders[col].classes}
             unseen == {st.df.rows[i][col] : i \in DOMAIN st.df.rows} \ (known \cup {NA})
         IN  [st EXCEPT
                !.encoders = [st.encoders EXCEPT
                                 ![col].classes = @ \o SortLabels(unseen)],
                !.df = SetCol(st.df, EncodedName[col],
                              LAMBDA r : EncodeValue(st.encoders[col], r[col]))]
\* one turn of the loop with encoders that are fitted on whatever data they
\* are given, at inference as in training
EncodeStepRefitting(st, col, fit_encoders) ==
    IF st.raised THEN st
    ELSE LET e1 == IF st.encoders[col].present THEN st.encoders
                   ELSE [st.encoders EXCEPT ![col] = UnfittedEncoder]
         IN  IF col \notin st.df.cols
             THEN [st EXCEPT !.raised = TRUE, !.err = "KeyError", !.encoders = e1]
             ELSE IF \E i \in DOMAIN st.df.rows : st.df.rows[i][col] = NA
             THEN [st EXCEPT !.raised = TRUE, !.err = "TypeError", !.encoders = e1]
             ELSE LET enc == FitEncoder(Column(st.df, col))
                  IN  [st EXCEPT
                         !.encoders = [e1 EXCEPT ![col] = enc],
                         !.df = SetCol(st.df, EncodedName[col],
                                       LAMBDA r : EncodeValue(enc, r[col]))]

\* one turn of the loop over categorical_cols; st = [raised, err, encoders, df]
EncodeStep(st, col, fit_encoders) ==
    IF st.raised THEN st
    ELSE IF fit_encoders
    THEN LET e1 == IF st.encoders[col].present THEN st.encoders
                   ELSE [st.encoders EXCEPT ![col] = UnfittedEncoder]
         IN  IF col \notin st.df.cols
             THEN [st EXCEPT !.raised = TRUE, !.err = "KeyError", !.encoders = e1]
             ELSE IF \E i \in DOMAIN st.df.rows : st.df.rows[i][col] = NA
             THEN [st EXCEPT !.raised = TRUE, !.err = "TypeError", !.encoders = e1]
             ELSE LET enc == FitEncoder(Column(st.df, col))
                  IN  [st EXCEPT
                         !.encoders = [e1 EXCEPT ![col] = enc],
                         !.df = SetCol(st.df, EncodedName[col],
                                       LAMBDA r : EncodeValue(enc, r[col]))]
    ELSE IF ~st.encoders[col].present THEN st
    ELSE IF col \notin st.df.cols THEN [st EXCEPT !.raised = TRUE, !.err = "KeyError"]
    ELSE IF ~st.encoders[col].fitted
    THEN [st EXCEPT !.raised = TRUE, !.err = "AttributeError"]
    ELSE [st EXCEPT !.df = SetCol(st.df, EncodedName[col],
                                  LAMBDA r : EncodeValue(st.encoders[col], r[col]))]

RECURSIVE EncodeLoop(_, _, _)
EncodeLoop(st, cols, fit_encoders) ==
    IF cols = <<>> THEN st
    ELSE EncodeLoop(EncodeStep(st, Head(cols), fit_encoders), Tail(cols), fit_encoders)

\* prepare_features(data, fit_encoders) on an instance with these encoders and
\* feature_names: what it raises or returns and what it leaves in the instance
PrepareFeatures(encoders, feature_names, data, fit_encoders) ==
    LET result(st) ==
            LET available_cols == SelectSeq(feature_cols, LAMBDA c : c \in st.df.cols)
            IN  [raised |-> st.raised, err |-> st.err, at |-> "prepare_features",
                 encoders |-> st.encoders,
                 feature_names |-> IF fit_encoders /\ ~st.raised THEN available_cols
                                   ELSE feature_names,
                 X |-> [cols |-> available_cols, named |-> TRUE,
                        rows |-> [i \in DOMAIN st.df.rows |->
                                    [c \in {available_cols[j] : j \in DOMAIN available_cols} |->
                                       st.df.rows[i][c]]]]]
    IN  result(EncodeLoop([raised |-> FALSE, err |-> "", encoders |-> encoders, df |-> data],
                          categorical_cols, fit_encoders))

(***************************************************************************)
(* The fitted estimators (scikit-learn / xgboost), as far as the pipeline  *)
(* observes them: what they were fitted on, when they reject an input, and *)
(* a deterministic probability for every accepted row.                     *)
(***************************************************************************)
Algorithms == {"random_forest", "xgboost", "logistic"}
AlgoSeed == [random_forest |-> 0, xgboost |-> 2, logistic |-> 5]

\* the probabilities an estimator hands out
ProbTable == << <<0, 1>>, <<1, 10>>, <<3, 10>>, <<1, 2>>, <<7, 10>>, <<9, 10>>, <<1, 1>> >>

\* estimator.fit(X, y) on the rows of training table `data`
FitModel(algo, X, data) ==
    [algo |-> algo, features |-> X.cols, named |-> X.named, seed |-> AlgoSeed[algo] + data.seed]

\* StandardScaler().fit(X)
FitScaler(X, data) == [features |-> X.cols, center |-> data.center]

\* scaler.transform(X): a DataFrame whose columns differ from the fitted
\* ones, or an infinite value, is rejected; the result is a bare array
ScalerTransform(scaler, X) ==
    IF X.cols # scaler.features THEN Raised("ValueError", "scaler.transform")
    ELSE IF \E i \in DOMAIN X.rows : \E c \in DOMAIN X.rows[i] :
                X.rows[i][c] \in {PosInf, NegInf}
    THEN Raised("ValueError", "scaler.transform")
    ELSE [raised |-> FALSE,
          X |-> [cols |-> X.cols, named |-> FALSE,
                 rows |-> [i \in DOMAIN X.rows |->
                             [c \in DOMAIN X.rows[i] |-> RSub(X.rows[i][c], Q(scaler.center))]]]]

RowHash(row, cols) ==
    LET F[i \in 0..Len(cols)] ==
            IF i = 0 THEN 0 ELSE F[i - 1] + i * (row[cols[i]][1] + row[cols[i]][2])
    IN  F[Len(cols)]

\* whether estimator.predict / predict_proba rejects X (ValueError)
ModelRejects(model, X) ==
    \/ Len(X.rows) = 0
    \/ IF X.named /\ model.named THEN X.cols # model.features
                                 ELSE Len(X.cols) # Len(model.features)
    \/ \E i \in DOMAIN X.rows : \E c \in DOMAIN X.rows[i] :
           \/ X.rows[i][c] \in {PosInf, NegInf}
           \/ IsNaN(X.rows[i][c]) /\ model.algo # "xgboost"

\* predict_proba(X)[:, 1] for an accepted X
PredictProba(model, X) ==
    [i \in DOMAIN X.rows |->
        ProbTable[((RowHash(X.rows[i], X.cols) + model.seed) % Len(ProbTable)) + 1]]

\* predict(X): the class with the larger probability, 0 on a tie
PredictLabels(model, X) ==
    LET p == PredictProba(model, X)
    IN  [i \in DOMAIN p |-> IF RGt(p[i], <<1, 2>>) THEN 1 ELSE 0]

HasFeatureImportances(model) == model.algo \in {"random_forest", "xgboost"}

(***************************************************************************)
(* StockSenseModel                                                         *)
(***************************************************************************)
None == [none |-> TRUE]

\* StockSenseModel.__init__
NewModel == [model |-> None, scaler |-> None, encoders |-> NoEncoders,
             feature_names |-> <<>>, is_trained |-> FALSE]

\* the fit_encoders argument predict passes to prepare_features
PredictFitEncoders == FALSE

\* StockSenseModel.predict(data): raised, or predictions and probabilities;
\* self is the instance as the call leaves it, encoded the X that
\* prepare_features returned, handed the columns of the X passed to
\* self.model.predict when the call gets that far
MdlPredict(self, data) ==
    LET fail(r, s) == [raised |-> TRUE, err |-> r.err, at |-> r.at, self |-> s]
        \* predictions = self.model.predict(X); probabilities = predict_proba(X)
        estimate(X, after, encoded) ==
            IF self.model = None
            THEN [raised |-> TRUE, err |-> "AttributeError", at |-> "model.predict",
                  self |-> after, encoded |-> encoded, handed |-> X.cols]
            ELSE IF ModelRejects(self.model, X)
            THEN [raised |-> TRUE, err |-> "ValueError", at |-> "model.predict",
                  self |-> after, encoded |-> encoded, handed |-> X.cols]
            ELSE [raised |-> FALSE, self |-> after, encoded |-> encoded, handed |-> X.cols,
                  predictions |-> PredictLabels(self.model, X),
                  probabilities |-> PredictProba(self.model, X)]
        \* if self.scaler: X = self.scaler.transform(X)
        scaled(sc, after, encoded) ==
            IF sc.raised
            THEN [raised |-> TRUE, err |-> sc.err, at |-> sc.at, self |-> after,
                  encoded |-> encoded]
            ELSE estimate(sc.X, after, encoded)
        \* X = self.prepare_features(data_engineered, fit_encoders=False)
        prepared(pf, after) ==
            IF pf.raised THEN fail(pf, after)
            ELSE scaled(IF self.scaler # None THEN ScalerTransform(self.scaler, pf.X)
                        ELSE [raised |-> FALSE, X |-> pf.X], after, pf.X)
        instance(pf) ==
            prepared(pf, [self EXCEPT !.encoders = pf.encoders,
                                      !.feature_names = pf.feature_names])
        \* data_engineered = self.engineer_features(data)
        engineered(ef) ==
            IF ef.raised THEN fail(ef, self)
            ELSE instance(PrepareFeatures(self.encoders, self.feature_names, ef.df,
                                          PredictFitEncoders))
    IN  IF ~self.is_trained THEN fail(Raised("ValueError", "predict"), self)
        ELSE engineered(EngineerFeatures(data))

\* StockSenseModel.train(data, target_column, model_type).  data is a training
\* table [id, frame, seed, center]: frame holds its distinct rows (the table
\* repeats them often enough for the stratified 80/20 split), seed and center
\* stand for what an estimator and a scaler learn from it.  The result says
\* whether the call raised and how it leaves the instance; encoded is the X
\* that prepare_features returned, when it returned.
MdlTrain(self, data, target_column, model_type) ==
    LET fail(r, s) == [raised |-> TRUE, err |-> r.err, at |-> r.at, self |-> s]
        \* y_pred = self.model.predict(X_test), then is_trained = True
        evaluated(s2, X_test, encoded) ==
            IF s2.model = None
            THEN [raised |-> TRUE, err |-> "AttributeError", at |-> "model.predict",
                  self |-> s2, encoded |-> encoded]
            ELSE IF ModelRejects(s2.model, X_test)
            THEN [raised |-> TRUE, err |-> "ValueError", at |-> "model.predict",
                  self |-> s2, encoded |-> encoded]
            ELSE [raised |-> FALSE, self |-> [s2 EXCEPT !.is_trained = TRUE],
                  encoded |-> encoded, report |-> [model_type |-> model_type]]
        \* the branch on model_type: fit the estimator (and the scaler)
        fitted(s1, X) ==
            IF model_type \in {"random_forest", "xgboost"}
            THEN evaluated([s1 EXCEPT !.model = FitModel(model_type, X, data)], X, X)
            ELSE IF model_type = "logistic"
            THEN evaluated([s1 EXCEPT !.scaler = FitScaler(X, data),
                                      !.model = FitModel(model_type,
                                                         [X EXCEPT !.named = FALSE], data)],
                           [X EXCEPT !.named = FALSE], X)
            ELSE evaluated(s1, X, X)
        \* X = prepare_features(fit_encoders=True); y = data_engineered[target_column]
        prepared(pf, s1, cols) ==
            IF pf.raised THEN fail(pf, s1)
            ELSE IF target_column \notin cols
            THEN [raised |-> TRUE, err |-> "KeyError", at |-> "target_column",
                  self |-> s1, encoded |-> pf.X]
            ELSE fitted(s1, pf.X)
        instance(pf, cols) ==
            prepared(pf, [self EXCEPT !.encoders = pf.encoders,
                                      !.feature_names = pf.feature_names], cols)
        engineered(ef) ==
            IF ef.raised THEN fail(ef, self)
            ELSE instance(PrepareFeatures(self.encoders, self.feature_names, ef.df, TRUE),
                          ef.df.cols)
    IN  engineered(EngineerFeatures(data.frame))

\* the file content save_model dumps
Absent == [kind |-> "absent"]
ArtifactOf(self, timestamp) ==
    [kind |-> "artifact", model |-> self.model, scaler |-> self.scaler,
     encoders |-> self.encoders, feature_names |-> self.feature_names,
     timestamp |-> timestamp]
\* save_model without the is_trained check
MdlSaveUnguarded(self, file, clock) ==
    [raised |-> FALSE, file |-> ArtifactOf(self, clock)]

\* StockSenseModel.save_model(filepath): raised, or the file as written
MdlSave(self, file, clock) ==
    IF ~self.is_trained
    THEN [raised |-> TRUE, err |-> "ValueError", at |-> "save_model", file |-> file]
    ELSE [raised |-> FALSE, file |-> ArtifactOf(self, clock)]
\* a load that yields None where no file exists
JoblibLoadNone(file) ==
    [raised |-> FALSE, obj |-> IF file = Absent THEN [kind |-> "none"] ELSE file]

\* joblib.load(path): the object in the file, FileNotFoundError without one
JoblibLoad(file) ==
    IF file = Absent THEN Raised("FileNotFoundError", "joblib.load")
    ELSE [raised |-> FALSE, obj |-> file]
\* a load that restores model, encoders and feature_names but not the scaler
MdlLoadWithoutScaler(self, file) ==
    LET ld == JoblibLoad(file)
    IN  IF ld.raised THEN [raised |-> TRUE, err |-> ld.err, at |-> ld.at, self |-> self]
        ELSE IF ld.obj.kind # "artifact"
        THEN [raised |-> TRUE, err |-> "KeyError", at |-> "model_data['model']", self |-> self]
        ELSE [raised |-> FALSE,
              self |-> [model |-> ld.obj.model, scaler |-> self.scaler,
                        encoders |-> ld.obj.encoders,
                        feature_names |-> ld.obj.feature_names, is_trained |-> TRUE]]

\* a load that restores model, scaler and feature_names but leaves the
\* encoders of the instance in place
MdlLoadKeepingEncoders(self, file) ==
    LET ld == JoblibLoad(file)
    IN  IF ld.raised THEN [raised |-> TRUE, err |-> ld.err, at |-> ld.at, self |-> self]
        ELSE IF ld.obj.kind # "artifact"
        THEN [raised |-> TRUE, err |-> "KeyError", at |-> "model_data['model']", self |-> self]
        ELSE [raised |-> FALSE,
              self |-> [model |-> ld.obj.model, scaler |-> ld.obj.scaler,
                        encoders |-> self.encoders,
                        feature_names |-> ld.obj.feature_names, is_trained |-> TRUE]]

\* StockSenseModel.load_model(filepath)
MdlLoad(self, file) ==
    LET ld == JoblibLoad(file)
    IN  IF ld.raised THEN [raised |-> TRUE, err |-> ld.err, at |-> ld.at, self |-> self]
        ELSE IF ld.obj.kind # "artifact"
        THEN [raised |-> TRUE, err |-> "KeyError", at |-> "model_data['model']", self |-> self]
        ELSE [raised |-> FALSE,
              self |-> [model |-> ld.obj.model, scaler |-> ld.obj.scaler,
                        encoders |-> ld.obj.encoders,
                        feature_names |-> ld.obj.feature_names, is_trained |-> TRUE]]

\* model.feature_importances_ of a tree ensemble, one score per fitted feature
ImportanceScore(model, i) == (model.seed + 3 * i) % 7

\* StockSenseModel.get_feature_importance(): raised, None, or the features
\* ordered by descending importance
MdlFeatureImportance(self) ==
    IF ~self.is_trained THEN Raised("ValueError", "get_feature_importance")
    ELSE IF self.model = None THEN [raised |-> FALSE, value |-> None]
    ELSE IF ~HasFeatureImportances(self.model) THEN [raised |-> FALSE, value |-> None]
    ELSE IF Len(self.feature_names) # Len(self.model.features)
    THEN Raised("ValueError", "pd.DataFrame")
    ELSE [raised |-> FALSE,
          value |-> [features |->
              LET n == Len(self.feature_names)
                  pos(i) == Cardinality({j \in 1..n :
                               \/ ImportanceScore(self.model, j) > ImportanceScore(self.model, i)
                               \/ ImportanceScore(self.model, j) = ImportanceScore(self.model, i)
                                  /\ j < i}) + 1
              IN  [k \in 1..n |-> self.feature_names[CHOOSE i \in 1..n : pos(i) = k]]]]

(***************************************************************************)
(* StockSensePredictor                                                     *)
(***************************************************************************)
NoData == [kind |-> "none"]
\* the thresholds with the lower boundary counted as Low Risk
CategorizeRiskInclusive(risk_score) ==
    IF RLe(risk_score, <<3, 10>>) THEN "Low Risk"
    ELSE IF RLt(risk_score, <<7, 10>>) THEN "Medium Risk"
    ELSE "High Risk"

\* _categorize_risk
CategorizeRisk(risk_score) ==
    IF RLt(risk_score, <<3, 10>>) THEN "Low Risk"
    ELSE IF RLt(risk_score, <<7, 10>>) THEN "Medium Risk"
    ELSE "High Risk"

\* int(x) of a finite float: truncation towards zero
PyInt(x) == Sgn(x[1]) * (Abs(x[1]) \div x[2])

\* _generate_recommendations: the messages, each with the number it prints
GenerateRecommendations(product_data, risk_score) ==
    LET current_stock == Get(product_data, "current_stock", Q(0))
        avg_demand == Get(product_data, "avg_daily_demand", Q(1))
        lead_time == Get(product_data, "supplier_lead_time", Q(7))
        min_stock == Get(product_data, "minimum_stock_level", Q(10))
        stock_days == RDiv(current_stock, PyMax(avg_demand, Q(1)))
        safety_stock == RMul(RMul(avg_demand, lead_time), <<3, 2>>)
        reorder_qty == PyMax(Q(0), RSub(safety_stock, current_stock))
        msg(m, x) == <<[msg |-> m, value |-> x]>>
        urgency == IF RGt(risk_score, <<7, 10>>)
                   THEN msg("urgent_order", Q(0)) \o msg("stock_lasts_days", stock_days)
                   ELSE IF RGt(risk_score, <<1, 2>>)
                   THEN msg("reorder_24h", Q(0)) \o msg("stock_coverage", stock_days)
                   ELSE <<>>
        below == IF RLt(current_stock, min_stock) THEN msg("below_minimum", min_stock) ELSE <<>>
        runout == IF RLt(stock_days, lead_time) THEN msg("runs_out_before_delivery", lead_time)
                  ELSE <<>>
        healthy == IF RLt(risk_score, <<3, 10>>)
                   THEN msg("healthy", Q(0)) \o msg("covers_days", stock_days)
                   ELSE <<>>
        reorder == IF RGt(reorder_qty, Q(0)) THEN msg("reorder_quantity", Q(PyInt(reorder_qty)))
                   ELSE <<>>
    IN  urgency \o below \o runout \o healthy \o reorder
\* the heuristic with the lead time not doubled
FallbackScoreOneLeadTime(current_stock, avg_daily_demand, lead_time) ==
    LET stock_days == RDiv(current_stock, PyMax(avg_daily_demand, Q(1)))
    IN  IF lead_time = Q(0) THEN Raised("ZeroDivisionError", "fallback")
        ELSE [raised |-> FALSE,
              risk_score |-> PyMax(Q(0), PyMin(Q(1), RSub(Q(1), RDiv(stock_days, lead_time))))]

\* the fallback arithmetic on Python scalars: a zero divisor raises
FallbackScore(current_stock, avg_daily_demand, lead_time) ==
    LET stock_days == RDiv(current_stock, PyMax(avg_daily_demand, Q(1)))
        divisor == RMul(lead_time, Q(2))
    IN  IF divisor = Q(0) THEN Raised("ZeroDivisionError", "fallback")
        ELSE [raised |-> FALSE,
              risk_score |-> PyMax(Q(0), PyMin(Q(1), RSub(Q(1), RDiv(stock_days, divisor))))]

\* a label that counts a score of exactly 0.5 as high risk
FallbackLabelInclusive(risk_score) == IF RLe(<<1, 2>>, risk_score) THEN 1 ELSE 0

\* is_high_risk of the fallback: 1 if risk_score > 0.5 else 0
FallbackLabel(risk_score) == IF RGt(risk_score, <<1, 2>>) THEN 1 ELSE 0

\* the temporary StockSenseModel both predict methods build from model_data;
\* a model_data that is no artifact dict raises at the first subscript
TempModel(model_data) ==
    [model |-> model_data.model, scaler |-> model_data.scaler,
     encoders |-> model_data.encoders, feature_names |-> model_data.feature_names,
     is_trained |-> TRUE]

ModelPath(model_data, df_prepared) ==
    LET \* the encoders of the temporary model are the artifact's own objects
        outcome(r) ==
            IF r.raised
            THEN [raised |-> TRUE, err |-> r.err, at |-> r.at,
                  model_data |-> [model_data EXCEPT !.encoders = r.self.encoders]]
            ELSE [raised |-> FALSE,
                  model_data |-> [model_data EXCEPT !.encoders = r.self.encoders],
                  predictions |-> r.predictions, probabilities |-> r.probabilities]
    IN  IF model_data.kind # "artifact"
        THEN [raised |-> TRUE, err |-> "TypeError", at |-> "model_data['model']",
              model_data |-> model_data]
        ELSE outcome(MdlPredict(TempModel(model_data), df_prepared))

\* predict_single_product(product_data): what the caller gets and the
\* model_data the call leaves behind
PredictSingleProduct(model_data, product_data) ==
    LET assessment(risk_score, is_high_risk) ==
            [product_id |-> Get(product_data, "product_id", "Unknown"),
             risk_score |-> risk_score,
             risk_level |-> IF is_high_risk = 1 THEN "High" ELSE "Low",
             risk_category |-> CategorizeRisk(risk_score),
             recommendations |-> GenerateRecommendations(product_data, risk_score)]
        \* except Exception: the heuristic on the caller's dict
        fallback(fb, md) ==
            IF fb.raised
            THEN [status |-> "raised", err |-> fb.err, via |-> "fallback", model_data |-> md]
            ELSE [status |-> "returned", via |-> "fallback", model_data |-> md,
                  result |-> assessment(fb.risk_score, FallbackLabel(fb.risk_score))]
        \* try: temp_model.predict(df_prepared)
        tried(mp) ==
            IF mp.raised
            THEN fallback(FallbackScore(Get(product_data, "current_stock", Q(0)),
                                        Get(product_data, "avg_daily_demand", Q(1)),
                                        Get(product_data, "supplier_lead_time", Q(7))),
                          mp.model_data)
            ELSE [status |-> "returned", via |-> "model", model_data |-> mp.model_data,
                  result |-> assessment(mp.probabilities[1], mp.predictions[1])]
        \* df_prepared = self.prepare_prediction_data(df), outside the try
        prepared(prep) ==
            IF prep.raised
            THEN [status |-> "raised", err |-> prep.err, via |-> "prepare",
                  model_data |-> model_data]
            ELSE tried(ModelPath(model_data, prep.df))
    IN  prepared(PreparePredictionData(FrameOfDicts(<<product_data>>), NoSales))

\* the fallback loop of predict_batch over df_prepared.iterrows(): the rows of
\* a frame with a string column are Python scalars, so a zero divisor raises
BatchFallback(df_prepared) ==
    LET one(row) == FallbackScore(Get(row, "current_stock", Q(0)),
                                  Get(row, "avg_daily_demand", Q(1)),
                                  Get(row, "supplier_lead_time", Q(7)))
        n == Len(df_prepared.rows)
    IN  IF \E i \in 1..n : one(df_prepared.rows[i]).raised
        THEN Raised("ZeroDivisionError", "fallback")
        ELSE [raised |-> FALSE,
              probabilities |-> [i \in 1..n |-> one(df_prepared.rows[i]).risk_score],
              predictions |-> [i \in 1..n |->
                                 FallbackLabel(one(df_prepared.rows[i]).risk_score)]]

ResultCols == {"risk_score", "risk_prediction", "risk_level", "risk_category"}

\* predict_batch up to the sort: raised, or the result rows in input order
PredictBatchRows(model_data, inventory_data, sales_history) ==
    LET \* results = inventory_data.copy() with the four columns assigned
        table(probabilities, predictions, via, md) ==
            IF Len(probabilities) # Len(inventory_data.rows)
            THEN [status |-> "raised", err |-> "ValueError", via |-> via, model_data |-> md]
            ELSE [status |-> "returned", via |-> via, model_data |-> md,
                  rows |-> [i \in DOMAIN inventory_data.rows |->
                      [k \in inventory_data.cols \cup ResultCols |->
                          CASE k = "risk_score" -> probabilities[i]
                            [] k = "risk_prediction" -> predictions[i]
                            [] k = "risk_level" -> IF predictions[i] = 1 THEN "High" ELSE "Low"
                            [] k = "risk_category" -> CategorizeRisk(probabilities[i])
                            [] OTHER -> inventory_data.rows[i][k]]]]
        \* except Exception: the heuristic on every row of df_prepared
        fallback(fb, md) ==
            IF fb.raised
            THEN [status |-> "raised", err |-> fb.err, via |-> "fallback", model_data |-> md]
            ELSE table(fb.probabilities, fb.predictions, "fallback", md)
        \* try: temp_model.predict(df_prepared)
        tried(mp, df_prepared) ==
            IF mp.raised THEN fallback(BatchFallback(df_prepared), mp.model_data)
            ELSE table(mp.probabilities, mp.predictions, "model", mp.model_data)
        \* df_prepared = self.prepare_prediction_data(...), outside the try
        prepared(prep) ==
            IF prep.raised
            THEN [status |-> "raised", err |-> prep.err, via |-> "prepare",
                  model_data |-> model_data]
            ELSE tried(ModelPath(model_data, prep.df), prep.df)
    IN  prepared(PreparePredictionData(inventory_data, sales_history))

\* the permutations of 1..n
Perms(n) == {f \in [1..n -> 1..n] : \A i, j \in 1..n : i # j => f[i] # f[j]}
PermTable == [n \in 0..(MaxBatch + 1) |-> Perms(n)]
\* the orders of an ascending sort
SortOrdersAscending(rows) ==
    {f \in PermTable[Len(rows)] :
        \A i \in 1..(Len(rows) - 1) :
            LET a == rows[f[i]]["risk_score"]
                b == rows[f[i + 1]]["risk_score"]
            IN  IsNaN(b) \/ (~IsNaN(a) /\ ~RLt(b, a))}

\* the orders results.sort_values('risk_score', ascending=False) may give:
\* descending scores, missing scores last, equal scores in any order
SortOrders(rows) ==
    {f \in PermTable[Len(rows)] :
        \A i \in 1..(Len(rows) - 1) :
            LET a == rows[f[i]]["risk_score"]
                b == rows[f[i + 1]]["risk_score"]
            IN  IsNaN(b) \/ (~IsNaN(a) /\ ~RLt(a, b))}

\* predict_batch(inventory_data, sales_history): every outcome the call can have
PredictBatch(model_data, inventory_data, sales_history) ==
    LET sorted(r) ==
            IF r.status = "raised" THEN {r}
            ELSE {[r EXCEPT !.rows = [i \in DOMAIN r.rows |-> r.rows[f[i]]]] :
                     f \in SortOrders(r.rows)}
    IN  sorted(PredictBatchRows(model_data, inventory_data, sales_history))

\* StockSensePredictor.load_model / StockSenseExplainer.load_model up to the
\* assignment of model_data: joblib.load, any exception logged and re-raised
LoadModelData(file) == JoblibLoad(file)

(***************************************************************************)
(* Inputs                                                                  *)
(***************************************************************************)
EmptyDict == << >>
Field(k, values) == {k :> Q(v) : v \in values}

\* product dicts handed to predict_single_product: every combination of a
\* present or omitted current_stock, avg_daily_demand, supplier_lead_time,
\* days_since_restock and a category seen or unseen in training
SingleInputs ==
    {("product_id" :> "P1") @@ ("minimum_stock_level" :> Q(20)) @@ cs @@ dd @@ lt @@ ds @@ cat :
        cs \in {EmptyDict} \cup Field("current_stock", {0, 5, 21}),
        dd \in {EmptyDict} \cup Field("avg_daily_demand", {0, 5}),
        lt \in {EmptyDict} \cup Field("supplier_lead_time", {0, 3, 7}),
        ds \in {EmptyDict} \cup Field("days_since_restock", {3}),
        cat \in {"category" :> "Electronics", "category" :> "Toys"}}

\* inventory rows for predict_batch
BaseItem ==
    [product_id |-> "P1", current_stock |-> Q(8), avg_daily_demand |-> Q(1),
     supplier_lead_time |-> Q(5), minimum_stock_level |-> Q(20),
     days_since_restock |-> Q(3), category |-> "Electronics", price |-> Q(30)]
Catalog ==
    << BaseItem,
       [BaseItem EXCEPT !.product_id = "P2", !.current_stock = Q(1)],
       [BaseItem EXCEPT !.product_id = "P3", !.current_stock = Q(5)],
       [BaseItem EXCEPT !.product_id = "P4", !.avg_daily_demand = Q(5),
                        !.supplier_lead_time = Q(0)],
       [BaseItem EXCEPT !.product_id = "P5", !.current_stock = Q(1), !.category = "Toys"],
       [product_id |-> "P6", current_stock |-> Q(4), minimum_stock_level |-> Q(2)] >>

\* the inventories: the rows of the catalog picked by an index set, in
\* catalog order, at most MaxBatch of them, and an inventory with no row
RowsAt(S) == SelectSeq(Catalog, LAMBDA p : \E i \in S : Catalog[i] = p)
Inventories ==
    {FrameOfDicts(RowsAt(S)) :
        S \in {T \in SUBSET DOMAIN Catalog : Cardinality(T) \in 1..MaxBatch}}
    \cup {[cols |-> DOMAIN BaseItem, rows |-> <<>>]}

\* sales_history tables: product P1 with three days, P2 and P6 with one each
Day(pid, demand, stockout) == [product_id |-> pid, daily_demand |-> demand, stockout |-> stockout]
SalesTables ==
    {NoSales,
     [given |-> TRUE,
      rows |-> <<Day("P1", 3, 0), Day("P2", 4, 1), Day("P1", 5, 0), Day("P1", 7, 1),
                 Day("P6", 2, 0)>>]}

\* training tables: the distinct rows of ml_training_data.csv
TrainRow ==
    [product_id |-> "T1", category |-> "Electronics", subcategory |-> "General",
     price |-> Q(30), supplier_lead_time |-> Q(5), minimum_stock_level |-> Q(20),
     seasonal_factor |-> Q(1), avg_daily_demand |-> Q(5), demand_std |-> Q(2),
     max_daily_demand |-> Q(10), total_stockouts |-> Q(0),
     weekend_sales_ratio |-> <<1, 2>>, holiday_sales_ratio |-> <<1, 2>>,
     current_stock |-> Q(8), days_since_restock |-> Q(3),
     demand_variability |-> <<2, 5>>, stock_coverage_days |-> <<8, 5>>,
     is_high_risk |-> Q(1)]
TrainRow2 == [TrainRow EXCEPT !.product_id = "T2", !.category = "Grocery", !.price = Q(150),
                              !.avg_daily_demand = Q(20), !.is_high_risk = Q(0)]
TrainRow3 == [TrainRow EXCEPT !.product_id = "T3", !.category = "Toys", !.price = Q(10)]
DropCol(r, c) == [k \in DOMAIN r \ {c} |-> r[k]]
TrainingTables ==
    {[id |-> "full", seed |-> 0, center |-> 1,
      frame |-> FrameOfDicts(<<TrainRow, TrainRow2>>)],
     [id |-> "no_restock_column", seed |-> 1, center |-> 2,
      frame |-> FrameOfDicts(<<DropCol(TrainRow, "days_since_restock"),
                               DropCol(TrainRow2, "days_since_restock")>>)],
     [id |-> "three_rows", seed |-> 2, center |-> 1,
      frame |-> FrameOfDicts(<<TrainRow, TrainRow2, TrainRow3>>)],
     [id |-> "no_target_column", seed |-> 3, center |-> 1,
      frame |-> FrameOfDicts(<<DropCol(TrainRow, "is_high_risk"),
                               DropCol(TrainRow2, "is_high_risk")>>)]}
ModelTypes == Algorithms \cup {"svm"}
TableNamed(id) == CHOOSE t \in TrainingTables : t.id = id

\* the trainings whose artifact the service is run on, and two that fail
ServiceTrainings ==
    {<<"full", "random_forest">>, <<"no_restock_column", "logistic">>,
     <<"full", "xgboost">>, <<"no_target_column", "random_forest">>, <<"full", "svm">>}

(***************************************************************************)
(* Memoised results: the operations above are pure, so what a call gives   *)
(* for the artifacts a fresh training can save and the inputs above is     *)
(* computed once; any other argument is computed on the spot.              *)
(***************************************************************************)
TrainTable ==
    [data \in TrainingTables |->
        [model_type \in ModelTypes |-> MdlTrain(NewModel, data, "is_high_risk", model_type)]]

KnownModelData ==
    {NoData} \cup
    {ArtifactOf(t.self, 0) :
        t \in {u \in {TrainTable[TableNamed(run[1])][run[2]] : run \in ServiceTrainings} :
                  ~u.raised}}

SingleTable ==
    [md \in KnownModelData |-> [p \in SingleInputs |-> PredictSingleProduct(md, p)]]

BatchTable ==
    [md \in KnownModelData |->
        [inv \in Inventories |-> [sh \in SalesTables |-> PredictBatch(md, inv, sh)]]]

TrainFresh(data, model_type) ==
    IF data \in TrainingTables /\ model_type \in ModelTypes
    THEN TrainTable[data][model_type]
    ELSE MdlTrain(NewModel, data, "is_high_risk", model_type)

SingleOutcome(model_data, product_data) ==
    IF model_data \in KnownModelData /\ product_data \in SingleInputs
    THEN SingleTable[model_data][product_data]
    ELSE PredictSingleProduct(model_data, product_data)

BatchOutcomes(model_data, inventory_data, sales_history) ==
    IF model_data \in KnownModelData /\ inventory_data \in Inventories
       /\ sales_history \in SalesTables
    THEN BatchTable[model_data][inventory_data][sales_history]
    ELSE PredictBatch(model_data, inventory_data, sales_history)

(***************************************************************************)
(* State and operations                                                    *)
(***************************************************************************)
NoPredictor == [live |-> FALSE, model_data |-> NoData]
NoExplainer == [live |-> FALSE, model_data |-> NoData, feature_importance |-> None]
\* nothing kept yet for the predictor that has loaded this object
MemoAt(loaded) == [set |-> FALSE, loaded |-> loaded]
NoMemo == MemoAt(NoData)

\* hist before any call on the instance.  codes: the integer code each
\* prepare_features(fit_encoders=True) gave each raw categorical value, with
\* the encoders it fitted; origin: whether the instance was last changed by a
\* train or a load_model call, and file, the artifact that load read; latest:
\* the model_type of the most recent train call that returned and the scaler
\* it fitted; clean: every call that changed the instance since its
\* construction was a train call that returned
NoHist == [codes |-> {}, origin |-> "none", file |-> NoData, latest |-> None, clean |-> TRUE]

\* the codes in the X of a training, by raw value
CodesOf(encoders, raw, X) ==
    {[encoders |-> encoders, col |-> categorical_cols[j], value |-> raw.rows[i][categorical_cols[j]],
      code |-> X.rows[i][EncodedName[categorical_cols[j]]]] :
        i \in DOMAIN X.rows, j \in DOMAIN categorical_cols}

\* memo after one more predict_* call: a kept call starts the comparison anew,
\* any other call is noted as a repetition of the kept input or as a call in
\* between
Remember(m, keep, product_data, out) ==
    IF keep
    THEN [set |-> TRUE, loaded |-> m.loaded, input |-> product_data, out |-> out,
          between |-> FALSE, again |-> FALSE]
    ELSE IF ~m.set THEN m
    ELSE [m EXCEPT !.between = @ \/ product_data # m.input,
                   !.again = (product_data = m.input)]
\* no retry_on_failure call has been made; no thread is in train()
NoRetry == [pc |-> "idle", func |-> "none", attempt |-> 0, tried |-> <<>>,
            slept |-> <<>>, out |-> [status |-> "none"]]
Threads == {1, 2}
NoJobs == [t \in Threads |-> [pc |-> "idle"]]

Init ==
    /\ disk = Absent
    /\ svc = NoPredictor
    /\ expl = NoExplainer
    /\ mdl = NewModel
    /\ done = {}
    /\ now = 0
    /\ last = [op |-> "none"]
    /\ memo = NoMemo
    /\ hist = NoHist
    /\ retry = NoRetry
    /\ jobs = NoJobs

\* a training run as model.py does it: a fresh StockSenseModel, train(), then
\* save_model() to the artifact path; an exception of train ends the run
\* before the save
TrainAndSave(data, model_type) ==
    LET run(t, s) ==
            /\ disk' = IF t.raised \/ s.raised THEN disk ELSE s.file
            /\ last' = [op |-> "train_and_save", data |-> data.id, model_type |-> model_type,
                        out |-> IF t.raised THEN [status |-> "raised", err |-> t.err]
                                ELSE [status |-> "returned"]]
        trained(t) == run(t, MdlSave(t.self, disk, now))
    IN  /\ trained(TrainFresh(data, model_type))
        /\ UNCHANGED <<svc, expl, mdl, done, now, memo, hist, retry, jobs>>
\* a constructor that swallows the load error and keeps model_data = None
PredictorInitSwallowing(file) ==
    LET ld == LoadModelData(file)
    IN  [raised |-> FALSE,
         svc |-> [live |-> TRUE, model_data |-> IF ld.raised THEN NoData ELSE ld.obj]]

\* StockSensePredictor.__init__: model_data = None, then load_model(); an
\* exception leaves the caller without a predictor
PredictorInit(file) ==
    LET ld == LoadModelData(file)
    IN  IF ld.raised THEN [raised |-> TRUE, err |-> ld.err, svc |-> NoPredictor]
        ELSE [raised |-> FALSE, svc |-> [live |-> TRUE, model_data |-> ld.obj]]

ConstructPredictor ==
    LET built(r) ==
            /\ svc' = r.svc
            /\ last' = [op |-> "StockSensePredictor", file |-> disk,
                        out |-> IF r.raised THEN [status |-> "raised", err |-> r.err]
                                ELSE [status |-> "returned"]]
            /\ memo' = MemoAt(r.svc.model_data)
    IN  /\ ~svc.live
        /\ built(PredictorInit(disk))
        /\ UNCHANGED <<disk, expl, mdl, done, now, hist, retry, jobs>>

\* StockSensePredictor.load_model() on a live predictor: model_data is
\* assigned only when joblib.load returns
ReloadModel ==
    LET loaded(ld) ==
            /\ svc' = IF ld.raised THEN svc ELSE [svc EXCEPT !.model_data = ld.obj]
            /\ last' = [op |-> "load_model", file |-> disk,
                        out |-> IF ld.raised THEN [status |-> "raised", err |-> ld.err]
                                ELSE [status |-> "returned"]]
            /\ memo' = MemoAt(IF ld.raised THEN memo.loaded ELSE ld.obj)
    IN  /\ svc.live
        /\ loaded(LoadModelData(disk))
        /\ UNCHANGED <<disk, expl, mdl, done, now, hist, retry, jobs>>

PredictSingle(product_data, keep) ==
    LET answered(out) ==
            /\ svc' = [svc EXCEPT !.model_data = out.model_data]
            /\ last' = [op |-> "predict_single_product", input |-> product_data,
                        loaded |-> svc.model_data, out |-> out]
            /\ memo' = Remember(memo, keep, product_data, out)
    IN  /\ svc.live
        /\ answered(SingleOutcome(svc.model_data, product_data))
        /\ UNCHANGED <<disk, expl, mdl, done, now, hist, retry, jobs>>

PredictBatchCall(inventory_data, sales_history) ==
    /\ svc.live
    /\ \E out \in BatchOutcomes(svc.model_data, inventory_data, sales_history) :
           /\ svc' = [svc EXCEPT !.model_data = out.model_data]
           /\ last' = [op |-> "predict_batch", input |-> inventory_data,
                       sales |-> sales_history, loaded |-> svc.model_data, out |-> out]
    /\ memo' = Remember(memo, FALSE, inventory_data, NoData)
    /\ UNCHANGED <<disk, expl, mdl, done, now, hist, retry, jobs>>

Next ==
    \/ \E run \in ServiceTrainings : TrainAndSave(TableNamed(run[1]), run[2])
    \/ ConstructPredictor
    \/ ReloadModel
    \/ \E p \in SingleInputs : PredictSingle(p, FALSE)
    \/ \E inv \in Inventories, sh \in SalesTables : PredictBatchCall(inv, sh)

Spec == Init /\ [][Next]_vars

(***************************************************************************)
(* StockSenseExplainer: construction and load_model                        *)
(***************************************************************************)
\* StockSenseExplainer.load_model(): model_data is assigned as soon as
\* joblib.load returns, feature_importance only for a tree ensemble; every
\* exception is logged and raised again
ExplainerLoad(self, file) ==
    LET ranked(fi, s1) ==
            IF fi.raised THEN [raised |-> TRUE, err |-> fi.err, self |-> s1]
            ELSE [raised |-> FALSE, self |-> [s1 EXCEPT !.feature_importance = fi.value]]
        extracted(obj, s1) ==
            IF obj.kind # "artifact"
            THEN [raised |-> TRUE, err |-> "TypeError", self |-> s1]
            ELSE IF obj.model = None THEN [raised |-> FALSE, self |-> s1]
            ELSE IF ~HasFeatureImportances(obj.model) THEN [raised |-> FALSE, self |-> s1]
            ELSE ranked(MdlFeatureImportance(TempModel(obj)), s1)
        loaded(ld) ==
            IF ld.raised THEN [raised |-> TRUE, err |-> ld.err, self |-> self]
            ELSE extracted(ld.obj, [self EXCEPT !.model_data = ld.obj])
    IN  loaded(LoadModelData(file))

\* StockSenseExplainer.__init__: model_data = None, feature_importance = None,
\* then load_model(); an exception leaves the caller without an explainer
ExplainerInit(file) ==
    LET built(r) ==
            IF r.raised THEN [raised |-> TRUE, err |-> r.err, expl |-> NoExplainer]
            ELSE [raised |-> FALSE, expl |-> r.self]
    IN  built(ExplainerLoad([live |-> TRUE, model_data |-> NoData,
                             feature_importance |-> None], file))

ConstructExplainer ==
    LET built(r) ==
            /\ expl' = r.expl
            /\ last' = [op |-> "StockSenseExplainer", file |-> disk,
                        out |-> IF r.raised THEN [status |-> "raised", err |-> r.err]
                                ELSE [status |-> "returned"]]
    IN  /\ ~expl.live
        /\ built(ExplainerInit(disk))
        /\ UNCHANGED <<disk, svc, mdl, done, now, memo, hist, retry, jobs>>

\* StockSenseExplainer.load_model() on a live explainer
ExplainerReload ==
    LET loaded(r) ==
            /\ expl' = r.self
            /\ last' = [op |-> "explainer.load_model", file |-> disk,
                        out |-> IF r.raised THEN [status |-> "raised", err |-> r.err]
                                ELSE [status |-> "returned"]]
    IN  /\ expl.live
        /\ loaded(ExplainerLoad(expl, disk))
        /\ UNCHANGED <<disk, svc, mdl, done, now, memo, hist, retry, jobs>>

\* the product dicts with every raw field and a category seen in training
CoreInputs ==
    {p \in SingleInputs : /\ "days_since_restock" \in DOMAIN p
                          /\ p["category"] = "Electronics"}

NextLoad ==
    \/ \E run \in ServiceTrainings : TrainAndSave(TableNamed(run[1]), run[2])
    \/ ConstructPredictor
    \/ ReloadModel
    \/ ConstructExplainer
    \/ ExplainerReload
    \/ \E p \in CoreInputs : PredictSingle(p, FALSE)

SpecLoad == Init /\ [][NextLoad]_vars

(***************************************************************************)
(* A StockSenseModel instance driven directly: train, predict, save_model, *)
(* load_model and get_feature_importance in any order                      *)
(***************************************************************************)
\* the trainings made on the instance: two that succeed, one that raises
\* after the encoders are fitted, one with an unknown model_type
ModelTrainings ==
    {<<"full", "random_forest">>, <<"no_restock_column", "logistic">>,
     <<"no_target_column", "xgboost">>, <<"full", "svm">>}

\* records whose category, subcategory, price bucket and demand bucket did
\* not occur in the training tables, after one whose values all did
UnseenRow == [TrainRow EXCEPT !.product_id = "U1", !.category = "Toys",
                              !.subcategory = "Grocery", !.price = Q(10),
                              !.avg_daily_demand = Q(60)]

\* the tables handed to predict
ModelFrames ==
    {TableNamed("full").frame, TableNamed("no_restock_column").frame,
     FrameOfDicts(<<TrainRow, UnseenRow>>)}

Outcome(r) == IF r.raised THEN [status |-> "raised", err |-> r.err, at |-> r.at]
              ELSE [status |-> "returned"]

MTrain(data, model_type) ==
    LET trained(r) ==
            /\ mdl' = r.self
            /\ done' = IF r.raised THEN done ELSE done \cup {"train"}
            /\ last' = [op |-> "train", before |-> mdl, model_type |-> model_type,
                        out |-> Outcome(r)]
            /\ hist' = [codes |-> hist.codes \cup
                                     IF "encoded" \in DOMAIN r
                                     THEN CodesOf(r.self.encoders,
                                                  EngineerFeatures(data.frame).df, r.encoded)
                                     ELSE {},
                        origin |-> "train", file |-> NoData,
                        latest |-> IF r.raised THEN hist.latest
                                   ELSE [model_type |-> model_type,
                                         scaler |-> IF model_type = "logistic"
                                                    THEN r.self.scaler ELSE None],
                        clean |-> hist.clean /\ ~r.raised]
    IN  /\ trained(MdlTrain(mdl, data, "is_high_risk", model_type))
        /\ UNCHANGED <<disk, svc, expl, now, memo, retry, jobs>>

MPredict(data) ==
    LET predicted(r) ==
            /\ mdl' = r.self
            /\ last' = [op |-> "predict", before |-> mdl, data |-> data,
                        reached |-> "handed" \in DOMAIN r,
                        handed |-> IF "handed" \in DOMAIN r THEN r.handed ELSE <<>>,
                        encoded |-> IF "encoded" \in DOMAIN r THEN r.encoded ELSE None,
                        scaled |-> "encoded" \in DOMAIN r /\ mdl.scaler # None,
                        out |-> IF r.raised THEN Outcome(r)
                                ELSE [status |-> "returned",
                                      probabilities |-> r.probabilities]]
    IN  /\ predicted(MdlPredict(mdl, data))
        /\ UNCHANGED <<disk, svc, expl, done, now, memo, hist, retry, jobs>>

MSave ==
    LET saved(r) ==
            /\ disk' = r.file
            /\ last' = [op |-> "save_model", before |-> mdl, file |-> disk, clock |-> now,
                        out |-> Outcome(r)]
    IN  /\ saved(MdlSave(mdl, disk, now))
        /\ UNCHANGED <<svc, expl, mdl, done, now, memo, hist, retry, jobs>>

MLoad ==
    LET loaded(r) ==
            /\ mdl' = r.self
            /\ done' = IF r.raised THEN done ELSE done \cup {"load_model"}
            /\ last' = [op |-> "load_model", before |-> mdl, out |-> Outcome(r)]
            /\ hist' = IF r.raised THEN hist
                       ELSE [hist EXCEPT !.origin = "load", !.file = disk, !.clean = FALSE]
    IN  /\ loaded(MdlLoad(mdl, disk))
        /\ UNCHANGED <<disk, svc, expl, now, memo, retry, jobs>>

MImportance ==
    LET ranked(r) ==
            last' = [op |-> "get_feature_importance", before |-> mdl,
                     out |-> IF r.raised THEN Outcome(r)
                             ELSE [status |-> "returned", value |-> r.value]]
    IN  /\ ranked(MdlFeatureImportance(mdl))
        /\ UNCHANGED <<disk, svc, expl, mdl, done, now, memo, hist, retry, jobs>>

\* a second StockSenseModel(): the instance starts over
MNew ==
    /\ mdl' = NewModel
    /\ done' = {}
    /\ last' = [op |-> "StockSenseModel", before |-> mdl, out |-> [status |-> "returned"]]
    /\ hist' = [hist EXCEPT !.origin = "none", !.file = NoData, !.latest = None,
                            !.clean = TRUE]
    /\ UNCHANGED <<disk, svc, expl, now, memo, retry, jobs>>

\* time passes between calls
Tick ==
    /\ now < MaxClock
    /\ now' = now + 1
    /\ UNCHANGED <<disk, svc, expl, mdl, done, last, memo, hist, retry, jobs>>

NextModel ==
    \/ \E run \in ModelTrainings : MTrain(TableNamed(run[1]), run[2])
    \/ \E data \in ModelFrames : MPredict(data)
    \/ MSave
    \/ MLoad
    \/ MImportance
    \/ MNew
    \/ Tick

SpecModel == Init /\ [][NextModel]_vars

(***************************************************************************)
(* A StockSenseModel instance retrained, saved and loaded: trainings on     *)
(* tables with different categories and price buckets, with and without a  *)
(* scaler, and trainings that raise                                        *)
(***************************************************************************)
RetrainTrainings ==
    {<<"full", "random_forest">>, <<"three_rows", "logistic">>,
     <<"no_target_column", "xgboost">>, <<"full", "svm">>}

NextRetrain ==
    \/ \E run \in RetrainTrainings : MTrain(TableNamed(run[1]), run[2])
    \/ \E data \in ModelFrames : MPredict(data)
    \/ MSave
    \/ MLoad
    \/ MNew

SpecRetrain == Init /\ [][NextRetrain]_vars

(***************************************************************************)
(* prepare_prediction_data called on inventories with different columns    *)
(***************************************************************************)
\* the columns a batch input has at least, those prepare_prediction_data
\* gives a default, and those it derives
MinBatchCols == {"product_id", "current_stock", "minimum_stock_level", "supplier_lead_time"}
DefaultedCols ==
    {"avg_daily_demand", "demand_std", "max_daily_demand", "total_stockouts", "price",
     "category", "subcategory", "seasonal_factor", "weekend_sales_ratio",
     "holiday_sales_ratio"}
DerivedCols == {"demand_variability", "stock_coverage_days", "stockout_rate"}

\* a record that has every column, with values that are neither the
\* defaults nor what prepare_prediction_data would derive, and one of a
\* product without demand
EnrichedRow ==
    [product_id |-> "P1", current_stock |-> Q(6), minimum_stock_level |-> Q(20),
     supplier_lead_time |-> Q(3), avg_daily_demand |-> Q(4), demand_std |-> Q(3),
     max_daily_demand |-> Q(9), total_stockouts |-> Q(2), price |-> Q(30),
     category |-> "Electronics", subcategory |-> "Grocery", seasonal_factor |-> Q(2),
     weekend_sales_ratio |-> <<1, 4>>, holiday_sales_ratio |-> <<3, 4>>,
     demand_variability |-> Q(7), stock_coverage_days |-> Q(11), stockout_rate |-> Q(1)]

\* inventories of that record and of one without demand, with the minimum
\* columns and at most two, or all but at most two, of the other columns;
\* and two that lack one of the minimum columns
PrepareInventories ==
    LET IdleRow == [EnrichedRow EXCEPT !.product_id = "P2", !.avg_daily_demand = Q(0)]
        Restrict(r, S) == [k \in S |-> r[k]]
        FrameWith(S) ==
            [cols |-> S, rows |-> <<Restrict(EnrichedRow, S), Restrict(IdleRow, S)>>]
    IN  {FrameWith(MinBatchCols \cup K) :
            K \in {L \in SUBSET (DefaultedCols \cup DerivedCols) :
                      Cardinality(L) <= 2 \/ Cardinality(L) >= 11}}
        \cup {FrameWith(MinBatchCols \ {c}) : c \in {"current_stock", "supplier_lead_time"}}

\* prepare_prediction_data is pure: its results for these inventories,
\* computed once
PrepareTable ==
    [inv \in PrepareInventories |->
        [sh \in SalesTables |-> PreparePredictionData(inv, sh)]]

PrepareOutcome(inventory_data, sales_history) ==
    IF inventory_data \in PrepareInventories /\ sales_history \in SalesTables
    THEN PrepareTable[inventory_data][sales_history]
    ELSE PreparePredictionData(inventory_data, sales_history)

PrepareCall(inventory_data, sales_history) ==
    LET prepared(prep) ==
            last' = [op |-> "prepare_prediction_data", input |-> inventory_data,
                     sales |-> sales_history,
                     out |-> IF prep.raised THEN [status |-> "raised", err |-> prep.err]
                             ELSE [status |-> "returned", df |-> prep.df]]
    IN  /\ svc.live
        /\ prepared(PrepareOutcome(inventory_data, sales_history))
        /\ UNCHANGED <<disk, svc, expl, mdl, done, now, memo, hist, retry, jobs>>

NextPrepare ==
    \/ TrainAndSave(TableNamed("full"), "random_forest")
    \/ ConstructPredictor
    \/ \E inv \in PrepareInventories, sh \in SalesTables : PrepareCall(inv, sh)

SpecPrepare == Init /\ [][NextPrepare]_vars

(***************************************************************************)
(* StockSenseExplainer.explain_prediction                                  *)
(***************************************************************************)
\* a key-factor cascade whose variability divides by the raw demand
IdentifyKeyFactorsUnguarded(product_data) ==
    LET current_stock == Get(product_data, "current_stock", Q(0))
        daily_demand == Get(product_data, "avg_daily_demand", Q(1))
        lead_time == Get(product_data, "supplier_lead_time", Q(7))
        min_stock == Get(product_data, "minimum_stock_level", Q(10))
        stock_days == RDiv(current_stock, PyMax(daily_demand, Q(1)))
        demand_std == Get(product_data, "demand_std", RMul(daily_demand, <<1, 5>>))
        variability == RDiv(demand_std, daily_demand)
        f(name, status, impact, shown) ==
            <<[factor |-> name, status |-> status, impact |-> impact, shown |-> shown]>>
    IN  (IF RLt(stock_days, lead_time)
         THEN f("Stock Coverage", "Critical", "High", <<stock_days, lead_time>>)
         ELSE IF RLt(stock_days, RMul(lead_time, Q(2)))
         THEN f("Stock Coverage", "Warning", "Medium", <<stock_days>>)
         ELSE f("Stock Coverage", "Good", "Low", <<stock_days>>))
        \o (IF RLt(current_stock, min_stock)
            THEN f("Minimum Stock Level", "Critical", "High", <<current_stock, min_stock>>)
            ELSE <<>>)
        \o (IF RGt(variability, <<1, 2>>)
            THEN f("Demand Variability", "Warning", "Medium", <<variability>>) ELSE <<>>)
        \o (IF RGt(lead_time, Q(14))
            THEN f("Supplier Lead Time", "Warning", "Medium", <<lead_time>>) ELSE <<>>)

\* _identify_key_factors(product_data): the factors in the order they are
\* appended; each keeps its name, status and impact, and as `shown` the
\* numbers its value and explanation texts interpolate
IdentifyKeyFactors(product_data) ==
    LET current_stock == Get(product_data, "current_stock", Q(0))
        daily_demand == Get(product_data, "avg_daily_demand", Q(1))
        lead_time == Get(product_data, "supplier_lead_time", Q(7))
        min_stock == Get(product_data, "minimum_stock_level", Q(10))
        stock_days == RDiv(current_stock, PyMax(daily_demand, Q(1)))
        demand_std == Get(product_data, "demand_std", RMul(daily_demand, <<1, 5>>))
        variability == RDiv(demand_std, PyMax(daily_demand, Q(1)))
        f(name, status, impact, shown) ==
            <<[factor |-> name, status |-> status, impact |-> impact, shown |-> shown]>>
    IN  (IF RLt(stock_days, lead_time)
         THEN f("Stock Coverage", "Critical", "High", <<stock_days, lead_time>>)
         ELSE IF RLt(stock_days, RMul(lead_time, Q(2)))
         THEN f("Stock Coverage", "Warning", "Medium", <<stock_days>>)
         ELSE f("Stock Coverage", "Good", "Low", <<stock_days>>))
        \o (IF RLt(current_stock, min_stock)
            THEN f("Minimum Stock Level", "Critical", "High", <<current_stock, min_stock>>)
            ELSE <<>>)
        \o (IF RGt(variability, <<1, 2>>)
            THEN f("Demand Variability", "Warning", "Medium", <<variability>>) ELSE <<>>)
        \o (IF RGt(lead_time, Q(14))
            THEN f("Supplier Lead Time", "Warning", "Medium", <<lead_time>>) ELSE <<>>)

\* _generate_narrative: the template chosen by risk_score and the numbers it
\* interpolates
GenerateNarrative(product_data, prediction_result) ==
    LET risk_score == Get(prediction_result, "risk_score", Q(0))
        current_stock == Get(product_data, "current_stock", Q(0))
        daily_demand == Get(product_data, "avg_daily_demand", Q(1))
        lead_time == Get(product_data, "supplier_lead_time", Q(7))
        stock_days == RDiv(current_stock, PyMax(daily_demand, Q(1)))
    IN  IF RGt(risk_score, <<7, 10>>)
        THEN [template |-> "HIGH RISK",
              shown |-> <<risk_score, current_stock, daily_demand, stock_days, lead_time>>]
        ELSE IF RGt(risk_score, <<2, 5>>)
        THEN [template |-> "MEDIUM RISK", shown |-> <<risk_score, current_stock, stock_days>>]
        ELSE [template |-> "LOW RISK", shown |-> <<risk_score, stock_days>>]

\* _suggest_improvements: the suggestions in the order they are appended, or
\* the ZeroDivisionError of demand_std / daily_demand
SuggestImprovements(product_data, prediction_result) ==
    LET current_stock == Get(product_data, "current_stock", Q(0))
        daily_demand == Get(product_data, "avg_daily_demand", Q(1))
        lead_time == Get(product_data, "supplier_lead_time", Q(7))
        stock_days == RDiv(current_stock, PyMax(daily_demand, Q(1)))
        safety_stock == RMul(RMul(daily_demand, lead_time), <<3, 2>>)
        say(m, x) == <<[msg |-> m, value |-> x]>>
        immediate == IF RGt(Get(prediction_result, "risk_score", Q(0)), <<7, 10>>)
                     THEN say("contact_supplier", Q(0)) \o say("alternative_suppliers", Q(0))
                          \o say("daily_monitoring", Q(0))
                     ELSE <<>>
        order == IF RLt(current_stock, safety_stock)
                 THEN say("order_quantity",
                          Q(PyInt(RAdd(RSub(safety_stock, current_stock),
                                       RMul(daily_demand, Q(7))))))
                 ELSE <<>>
        point == IF RLt(stock_days, RMul(lead_time, Q(2)))
                 THEN say("reorder_point", Q(PyInt(RMul(RMul(daily_demand, lead_time), Q(2)))))
                 ELSE <<>>
        process == IF RGt(lead_time, Q(10))
                   THEN say("shorter_lead_times", Q(0)) \o say("local_suppliers", Q(0))
                   ELSE <<>>
        demand_std == Get(product_data, "demand_std", RMul(daily_demand, <<1, 5>>))
        forecast == IF RGt(RDiv(demand_std, daily_demand), <<2, 5>>)
                    THEN say("demand_forecasting", Q(0)) \o say("demand_patterns", Q(0))
                    ELSE <<>>
    IN  IF daily_demand = Q(0) THEN Raised("ZeroDivisionError", "demand_std / daily_demand")
        ELSE [raised |-> FALSE,
              value |-> immediate \o order \o point \o process \o forecast
                        \o say("automated_alerts", Q(0)) \o say("realtime_tracking", Q(0))]

\* explain_prediction(product_data, prediction_result): the explanation, or
\* the exception of one of its parts
ExplainPrediction(product_data, prediction_result) ==
    LET built(key_factors, narrative, suggestions) ==
            IF suggestions.raised THEN [status |-> "raised", err |-> suggestions.err]
            ELSE [status |-> "returned",
                  explanation |->
                      [product_info |->
                           [product_id |-> Get(product_data, "product_id", "Unknown"),
                            current_stock |-> Get(product_data, "current_stock", Q(0)),
                            daily_demand |-> Get(product_data, "avg_daily_demand", Q(0)),
                            lead_time |-> Get(product_data, "supplier_lead_time", Q(7))],
                       risk_assessment |->
                           [risk_score |-> Get(prediction_result, "risk_score", Q(0)),
                            risk_level |-> Get(prediction_result, "risk_level", "Unknown"),
                            risk_category |-> Get(prediction_result, "risk_category", "Unknown")],
                       key_factors |-> key_factors,
                       explanation_narrative |-> narrative,
                       improvement_suggestions |-> suggestions.value]]
    IN  built(IdentifyKeyFactors(product_data),
              GenerateNarrative(product_data, prediction_result),
              SuggestImprovements(product_data, prediction_result))

\* product dicts handed to explain_prediction: every combination of a present
\* or omitted stock, demand, lead time, minimum stock level and demand_std
ExplainProducts ==
    {("product_id" :> "P1") @@ cs @@ dd @@ lt @@ ms @@ sd :
        cs \in {EmptyDict} \cup Field("current_stock", {5, 7, 70, 200}),
        dd \in {EmptyDict} \cup {"avg_daily_demand" :> v : v \in {Q(0), <<1, 2>>, Q(5)}},
        lt \in {EmptyDict} \cup Field("supplier_lead_time", {7, 12, 15}),
        ms \in {EmptyDict} \cup Field("minimum_stock_level", {20}),
        sd \in {EmptyDict} \cup {"demand_std" :> v : v \in {<<3, 10>>, Q(3)}}}

\* prediction results: none of the fields, or a medium or high score
ExplainResults ==
    {EmptyDict}
    \cup {("risk_score" :> s) @@ ("risk_level" :> IF RGt(s, <<1, 2>>) THEN "High" ELSE "Low")
          @@ ("risk_category" :> CategorizeRisk(s)) : s \in {<<3, 5>>, <<4, 5>>}}

\* explain_prediction is pure: its results for these inputs, computed once
ExplainTable ==
    [p \in ExplainProducts |-> [r \in ExplainResults |-> ExplainPrediction(p, r)]]

\* explain_prediction on a live explainer
ExplainCall(product_data, prediction_result) ==
    /\ expl.live
    /\ last' = [op |-> "explain_prediction", product |-> product_data,
                result |-> prediction_result,
                out |-> ExplainTable[product_data][prediction_result]]
    /\ UNCHANGED <<disk, svc, expl, mdl, done, now, memo, hist, retry, jobs>>

NextExplain ==
    \/ TrainAndSave(TableNamed("full"), "random_forest")
    \/ ConstructExplainer
    \/ \E p \in ExplainProducts, r \in ExplainResults : ExplainCall(p, r)

SpecExplain == Init /\ [][NextExplain]_vars

(***************************************************************************)
(* OpenAIManager.retry_on_failure (shared/openai_utils.py): the wrapper    *)
(* around chat_completion, analyze_image and generate_embeddings           *)
(***************************************************************************)
\* OpenAIManager.__init__
max_retries == 3
retry_delay == 1

\* a wait that does not grow
BackoffConstant(attempt) == retry_delay

\* the argument of time.sleep after a failed attempt
Backoff(attempt) == retry_delay * (2 ^ attempt)

\* the decorated methods, the exceptions an API call raises and the results
\* it returns
ApiCalls == {"chat_completion", "analyze_image", "generate_embeddings"}
ApiErrors == {"RateLimitError", "APIConnectionError", "APITimeoutError"}
ApiResults == {"text_a", "text_b"}

\* wrapper(self, ...) is entered: the loop starts at attempt 0
RetryCall(func) ==
    /\ retry.pc \in {"idle", "done"}
    /\ retry' = [pc |-> "attempt", func |-> func, attempt |-> 0, tried |-> <<>>,
                 slept |-> <<>>, out |-> [status |-> "none"]]
    /\ UNCHANGED <<disk, svc, expl, mdl, done, now, last, memo, hist, jobs>>

\* func(self, ...) returns: the wrapper returns its result
AttemptReturns(value) ==
    /\ retry.pc = "attempt"
    /\ retry' = [retry EXCEPT !.pc = "done",
                              !.tried = Append(@, [ok |-> TRUE, value |-> value]),
                              !.out = [status |-> "returned", value |-> value]]
    /\ UNCHANGED <<disk, svc, expl, mdl, done, now, last, memo, hist, jobs>>

\* func(self, ...) raises: re-raised on the last attempt, otherwise a
\* warning and on to time.sleep
AttemptRaises(err) ==
    /\ retry.pc = "attempt"
    /\ retry' = IF retry.attempt = max_retries - 1
                THEN [retry EXCEPT !.pc = "done",
                                   !.tried = Append(@, [ok |-> FALSE, err |-> err]),
                                   !.out = [status |-> "raised", err |-> err]]
                ELSE [retry EXCEPT !.pc = "sleep",
                                   !.tried = Append(@, [ok |-> FALSE, err |-> err])]
    /\ UNCHANGED <<disk, svc, expl, mdl, done, now, last, memo, hist, jobs>>

\* time.sleep(retry_delay * 2 ** attempt) ends and the loop goes on; a loop
\* that runs out returns None
Sleep ==
    /\ retry.pc = "sleep"
    /\ retry' = IF retry.attempt + 1 < max_retries
                THEN [retry EXCEPT !.pc = "attempt", !.attempt = @ + 1,
                                   !.slept = Append(@, Backoff(retry.attempt))]
                ELSE [retry EXCEPT !.pc = "done", !.attempt = @ + 1,
                                   !.slept = Append(@, Backoff(retry.attempt)),
                                   !.out = [status |-> "returned", value |-> "None"]]
    /\ UNCHANGED <<disk, svc, expl, mdl, done, now, last, memo, hist, jobs>>

NextRetry ==
    \/ \E func \in ApiCalls : RetryCall(func)
    \/ \E value \in ApiResults : AttemptReturns(value)
    \/ \E err \in ApiErrors : AttemptRaises(err)
    \/ Sleep

SpecRetry == Init /\ [][NextRetry]_vars

\* every API call comes back, with a result or an exception, and every
\* time.sleep ends
SpecRetryLive ==
    /\ SpecRetry
    /\ WF_vars(\E value \in ApiResults : AttemptReturns(value))
    /\ WF_vars(\E err \in ApiErrors : AttemptRaises(err))
    /\ WF_vars(Sleep)

(***************************************************************************)
(* Threads calling train() on one StockSenseModel instance.  train() takes *)
(* no lock; a thread may be preempted between any two statements, and the  *)
(* steps below cut train() at two of those points.                         *)
(***************************************************************************)
\* the trainings the threads run; each one returns when it runs alone
ThreadTrainings ==
    {<<"full", "random_forest">>, <<"three_rows", "logistic">>,
     <<"no_restock_column", "random_forest">>}

\* train(), lines 134-138: engineer_features, then prepare_features with
\* fit_encoders=True, which assigns self.encoders and self.feature_names;
\* X stays local to the thread
TrainPrepare(t, data, model_type) ==
    LET entered(pf, cols) ==
            /\ mdl' = [mdl EXCEPT !.encoders = pf.encoders,
                                  !.feature_names = pf.feature_names]
            /\ jobs' = [jobs EXCEPT ![t] =
                          IF pf.raised
                          THEN [pc |-> "finished", data |-> data.id, model_type |-> model_type,
                                out |-> [status |-> "raised", err |-> pf.err]]
                          ELSE [pc |-> "prepared", data |-> data, model_type |-> model_type,
                                cols |-> cols, X |-> pf.X,
                                wrote |-> [encoders |-> pf.encoders,
                                           feature_names |-> pf.feature_names]]]
        engineered(ef) ==
            entered(PrepareFeatures(mdl.encoders, mdl.feature_names, ef.df, TRUE), ef.df.cols)
    IN  /\ jobs[t].pc \in {"idle", "finished"}
        /\ engineered(EngineerFeatures(data.frame))
        /\ UNCHANGED <<disk, svc, expl, done, now, last, memo, hist, retry>>

\* train(), lines 139-175: y, the split, then the branch on model_type, which
\* assigns self.scaler (logistic only) and self.model and fits them on the
\* thread's own X
TrainFit(t) ==
    LET job == jobs[t]
        model == FitModel(job.model_type,
                          IF job.model_type = "logistic" THEN [job.X EXCEPT !.named = FALSE]
                          ELSE job.X,
                          job.data)
        scaler == FitScaler(job.X, job.data)
    IN  /\ job.pc = "prepared"
        /\ IF "is_high_risk" \notin job.cols
           THEN /\ jobs' = [jobs EXCEPT ![t] =
                              [pc |-> "finished", data |-> job.data.id,
                               model_type |-> job.model_type,
                               out |-> [status |-> "raised", err |-> "KeyError"]]]
                /\ mdl' = mdl
           ELSE /\ mdl' = IF job.model_type = "logistic"
                          THEN [mdl EXCEPT !.scaler = scaler, !.model = model]
                          ELSE [mdl EXCEPT !.model = model]
                /\ jobs' = [jobs EXCEPT ![t] =
                              [job EXCEPT !.pc = "fitted",
                                          !.wrote = [encoders |-> job.wrote.encoders,
                                                     feature_names |-> job.wrote.feature_names,
                                                     model |-> model, scaler |-> scaler]]]
        /\ UNCHANGED <<disk, svc, expl, done, now, last, memo, hist, retry>>

\* train(), lines 177-202: self.model.predict(X_test) on whatever self.model
\* is by now, the report, is_trained = True
TrainEvaluate(t) ==
    LET job == jobs[t]
        X_test == IF job.model_type = "logistic" THEN [job.X EXCEPT !.named = FALSE]
                  ELSE job.X
        out == IF mdl.model = None THEN [status |-> "raised", err |-> "AttributeError"]
               ELSE IF ModelRejects(mdl.model, X_test)
               THEN [status |-> "raised", err |-> "ValueError"]
               ELSE [status |-> "returned"]
    IN  /\ job.pc = "fitted"
        /\ mdl' = IF out.status = "returned" THEN [mdl EXCEPT !.is_trained = TRUE] ELSE mdl
        /\ jobs' = [jobs EXCEPT ![t] =
                      [pc |-> "finished", data |-> job.data.id, model_type |-> job.model_type,
                       wrote |-> job.wrote, out |-> out]]
        /\ last' = [op |-> "train", thread |-> t, model_type |-> job.model_type, out |-> out]
        /\ UNCHANGED <<disk, svc, expl, done, now, memo, hist, retry>>

NextThreads ==
    \/ \E t \in Threads, run \in ThreadTrainings : TrainPrepare(t, TableNamed(run[1]), run[2])
    \/ \E t \in Threads : TrainFit(t)
    \/ \E t \in Threads : TrainEvaluate(t)

SpecThreads == Init /\ [][NextThreads]_vars

(***************************************************************************)
(* StockSensePredictor.generate_dashboard_data and _generate_alerts        *)
(***************************************************************************)
\* an alert list that is not cut
GenerateAlertsUncapped(predictions) ==
    LET alert(type, priority, row) ==
            [type |-> type, product_id |-> Get(row, "product_id", "Unknown"),
             priority |-> priority]
        critical == SelectSeq(predictions.rows,
                              LAMBDA row : RGt(row["risk_score"], <<4, 5>>))
        low_stock == IF {"current_stock", "minimum_stock_level"} \subseteq predictions.cols
                     THEN SelectSeq(predictions.rows,
                                    LAMBDA row : RLt(row["current_stock"],
                                                     row["minimum_stock_level"]))
                     ELSE <<>>
    IN  [i \in DOMAIN critical |-> alert("critical", "high", critical[i])]
        \o [i \in DOMAIN low_stock |-> alert("low_stock", "medium", low_stock[i])]

\* _generate_alerts(predictions): the critical alerts in row order, then the
\* low-stock alerts in row order, cut to the first 10; each alert keeps its
\* type, product_id and priority
GenerateAlerts(predictions) ==
    LET alert(type, priority, row) ==
            [type |-> type, product_id |-> Get(row, "product_id", "Unknown"),
             priority |-> priority]
        critical == SelectSeq(predictions.rows,
                              LAMBDA row : RGt(row["risk_score"], <<4, 5>>))
        low_stock == IF {"current_stock", "minimum_stock_level"} \subseteq predictions.cols
                     THEN SelectSeq(predictions.rows,
                                    LAMBDA row : RLt(row["current_stock"],
                                                     row["minimum_stock_level"]))
                     ELSE <<>>
        alerts == [i \in DOMAIN critical |-> alert("critical", "high", critical[i])]
                  \o [i \in DOMAIN low_stock |-> alert("low_stock", "medium", low_stock[i])]
    IN  SubSeq(alerts, 1, IF Len(alerts) < 10 THEN Len(alerts) ELSE 10)

\* groupby('category')['risk_score'].mean() for one category: the mean of
\* the scores that are not missing, NaN when there is none
CategoryMean(rows, c) ==
    LET scores == SelectSeq(rows, LAMBDA row : row["category"] = c /\ ~IsNaN(row["risk_score"]))
        S[k \in 0..Len(scores)] ==
            IF k = 0 THEN Q(0) ELSE RAdd(S[k - 1], scores[k]["risk_score"])
    IN  IF Len(scores) = 0 THEN NaN ELSE RDiv(S[Len(scores)], Q(Len(scores)))

\* generate_dashboard_data after predict_batch returned `predictions`: the
\* dashboard, or the exception of one of its parts; the means of
\* category_analysis are kept exact (the code rounds them to 3 places)
GenerateDashboardData(predictions) ==
    LET rows == predictions.rows
        total_products == Len(rows)
        high_risk_count == SeqSum([i \in DOMAIN rows |-> rows[i]["risk_prediction"]])
        medium_risk_count ==
            Cardinality({i \in DOMAIN rows : /\ RLe(<<3, 10>>, rows[i]["risk_score"])
                                             /\ RLe(rows[i]["risk_score"], <<7, 10>>)})
        low_risk_count == total_products - high_risk_count - medium_risk_count
        shown == {"product_id", "current_stock", "avg_daily_demand", "risk_score",
                  "risk_category"}
        head == SubSeq(rows, 1, IF Len(rows) < 10 THEN Len(rows) ELSE 10)
        categories == {rows[i]["category"] : i \in DOMAIN rows} \ {NA}
        of(c) == {i \in DOMAIN rows : rows[i]["category"] = c}
        category_risk ==
            IF "category" \in predictions.cols
            THEN [c \in categories |->
                    [risk_score |-> CategoryMean(rows, c),
                     risk_prediction |-> Cardinality({i \in of(c) :
                                                         rows[i]["risk_prediction"] = 1})]]
            ELSE << >>
    IN  IF ~(shown \subseteq predictions.cols)
        THEN [status |-> "raised", err |-> "KeyError"]
        ELSE IF total_products = 0
        THEN [status |-> "raised", err |-> "ZeroDivisionError"]
        ELSE [status |-> "returned",
              dashboard |->
                  [summary |-> [total_products |-> total_products,
                                high_risk_products |-> high_risk_count,
                                risk_percentage |->
                                    RDiv(Q(high_risk_count * 100), Q(total_products))],
                   risk_distribution |->
                       [high |-> high_risk_count, medium |-> medium_risk_count,
                        low |-> low_risk_count],
                   top_risk_products |->
                       [i \in DOMAIN head |-> [c \in shown |-> head[i][c]]],
                   category_analysis |-> category_risk,
                   alerts |-> GenerateAlerts(predictions)]]

\* generate_dashboard_data(inventory_data): predict_batch(inventory_data),
\* then the dashboard of its result
DashboardCall(inventory_data) ==
    LET dashboard(out) ==
            IF out.status = "raised" THEN [status |-> "raised", err |-> out.err]
            ELSE GenerateDashboardData([cols |-> inventory_data.cols \cup ResultCols,
                                        rows |-> out.rows])
    IN  /\ svc.live
        /\ \E out \in BatchOutcomes(svc.model_data, inventory_data, NoSales) :
               /\ svc' = [svc EXCEPT !.model_data = out.model_data]
               /\ last' = [op |-> "generate_dashboard_data", input |-> inventory_data,
                           predictions |-> out, out |-> dashboard(out)]
        /\ memo' = Remember(memo, FALSE, inventory_data, NoData)
        /\ UNCHANGED <<disk, expl, mdl, done, now, hist, retry, jobs>>

NextDashboard ==
    \/ \E run \in ServiceTrainings : TrainAndSave(TableNamed(run[1]), run[2])
    \/ ConstructPredictor
    \/ \E inv \in Inventories : DashboardCall(inv)

SpecDashboard == Init /\ [][NextDashboard]_vars

\* prediction tables for _generate_alerts, in the order predict_batch leaves
\* them (highest score first): a rows above 0.8 and stocked, b rows above 0.8
\* and below their minimum, c rows at 0.5 below their minimum, d rows at 0.5
\* and stocked, at most 14 rows; with or without the minimum_stock_level
\* column
AlertFrames ==
    LET ids == [i \in 1..14 |-> <<"P01", "P02", "P03", "P04", "P05", "P06", "P07", "P08",
                                  "P09", "P10", "P11", "P12", "P13", "P14">>[i]]
        row(score, stock) ==
            [risk_score |-> score, current_stock |-> Q(stock), minimum_stock_level |-> Q(10)]
        kinds(a, b, c, d, mixed) ==
            IF mixed
            THEN [i \in 1..b |-> row(<<9, 10>>, 2)] \o [i \in 1..a |-> row(<<9, 10>>, 50)]
                 \o [i \in 1..d |-> row(<<1, 2>>, 50)] \o [i \in 1..c |-> row(<<1, 2>>, 2)]
            ELSE [i \in 1..a |-> row(<<9, 10>>, 50)] \o [i \in 1..b |-> row(<<9, 10>>, 2)]
                 \o [i \in 1..c |-> row(<<1, 2>>, 2)] \o [i \in 1..d |-> row(<<1, 2>>, 50)]
        frame(rows, cols) ==
            [cols |-> cols,
             rows |-> [i \in DOMAIN rows |->
                         [k \in cols |-> IF k = "product_id" THEN ids[i] ELSE rows[i][k]]]]
        counts == {n \in {0, 1, 6, 11} \X {0, 1, 5} \X {0, 1, 6} \X {0, 1} :
                      n[1] + n[2] + n[3] + n[4] <= 14}
    IN  {frame(kinds(n[1], n[2], n[3], n[4], mixed), cols) :
            n \in counts, mixed \in BOOLEAN,
            cols \in {{"product_id", "risk_score", "current_stock", "minimum_stock_level"},
                      {"product_id", "risk_score", "current_stock"}}}

\* _generate_alerts on a live predictor
GenerateAlertsCall(predictions) ==
    /\ svc.live
    /\ last' = [op |-> "_generate_alerts", predictions |-> predictions,
                out |-> GenerateAlerts(predictions)]
    /\ UNCHANGED <<disk, svc, expl, mdl, done, now, memo, hist, retry, jobs>>

NextAlerts ==
    \/ TrainAndSave(TableNamed("full"), "random_forest")
    \/ ConstructPredictor
    \/ \E predictions \in AlertFrames : GenerateAlertsCall(predictions)

SpecAlerts == Init /\ [][NextAlerts]_vars

(***************************************************************************)
(* StockSenseExplainer.generate_executive_summary                          *)
(***************************************************************************)
\* counts whose medium bucket includes 0.7
ExecutiveCountsInclusive(rows) ==
    LET count(test(_)) == Cardinality({i \in DOMAIN rows : test(rows[i]["risk_score"])})
    IN  [high |-> count(LAMBDA s : RLe(<<7, 10>>, s)),
         medium |-> count(LAMBDA s : RLe(<<3, 10>>, s) /\ RLe(s, <<7, 10>>)),
         low |-> count(LAMBDA s : RLt(s, <<3, 10>>))]

\* high_risk, medium_risk and low_risk: the rows with risk_score >= 0.7, with
\* 0.3 <= risk_score < 0.7 and with risk_score < 0.3
ExecutiveCounts(rows) ==
    LET count(test(_)) == Cardinality({i \in DOMAIN rows : test(rows[i]["risk_score"])})
    IN  [high |-> count(LAMBDA s : RLe(<<7, 10>>, s)),
         medium |-> count(LAMBDA s : RLe(<<3, 10>>, s) /\ RLt(s, <<7, 10>>)),
         low |-> count(LAMBDA s : RLt(s, <<3, 10>>))]

\* groupby('category')['risk_score'].mean().sort_values(ascending=False): the
\* orders the sort may give, as sequences of [category, mean]: descending
\* means, missing means last, equal means in any order
RECURSIVE CategoryRankings(_, _)
CategoryRankings(rows, categories) ==
    IF categories = {} THEN {<<>>}
    ELSE LET mean(c) == CategoryMean(rows, c)
             first == {c \in categories :
                          \A d \in categories :
                              IsNaN(mean(d)) \/ (~IsNaN(mean(c)) /\ ~RLt(mean(c), mean(d)))}
         IN  UNION {{<<[category |-> c, mean |-> mean(c)]>> \o rest :
                        rest \in CategoryRankings(rows, categories \ {c})} : c \in first}

\* generate_executive_summary(predictions_df): every outcome the call can
\* have.  The counts and sums are kept exact (the code rounds them for
\* display); insights and recommendations are fixed texts around them.
GenerateExecutiveSummary(predictions_df, clock) ==
    LET rows == predictions_df.rows
        total_products == Len(rows)
        counts == ExecutiveCounts(rows)
        scored == SelectSeq(rows, LAMBDA row : ~IsNaN(row["risk_score"]))
        S[k \in 0..Len(scored)] ==
            IF k = 0 THEN Q(0) ELSE RAdd(S[k - 1], scored[k]["risk_score"])
        avg_risk == IF Len(scored) = 0 THEN NaN ELSE RDiv(S[Len(scored)], Q(Len(scored)))
        high_risk_products ==
            SelectSeq(rows, LAMBDA row : /\ RLe(<<7, 10>>, row["risk_score"])
                                         /\ ~IsNaN(row["current_stock"])
                                         /\ ~IsNaN(row["price"]))
        L[k \in 0..Len(high_risk_products)] ==
            IF k = 0 THEN Q(0)
            ELSE RAdd(L[k - 1], RMul(high_risk_products[k]["current_stock"],
                                     high_risk_products[k]["price"]))
        priced == {"current_stock", "price"} \subseteq predictions_df.cols
        potential_lost_sales == L[Len(high_risk_products)]
        base == [timestamp |-> clock,
                 overview |-> [total_products |-> total_products,
                               high_risk_count |-> counts.high,
                               medium_risk_count |-> counts.medium,
                               low_risk_count |-> counts.low,
                               average_risk_score |-> avg_risk,
                               risk_percentage |->
                                   RDiv(Q(counts.high * 100), Q(total_products))]]
        financial == IF priced /\ potential_lost_sales # Q(0)
                     THEN [financial_impact |->
                               [potential_lost_sales |-> potential_lost_sales,
                                currency |-> "USD"]]
                     ELSE << >>
        ranked(ranking) ==
            [category_analysis |-> SubSeq(ranking, 1, IF Len(ranking) < 5 THEN Len(ranking)
                                                      ELSE 5)]
    IN  IF "risk_score" \notin predictions_df.cols
        THEN {[status |-> "returned", summary |-> [error |-> "Risk scores not available"]]}
        ELSE IF total_products = 0
        THEN {[status |-> "raised", err |-> "ZeroDivisionError"]}
        ELSE IF "category" \notin predictions_df.cols
        THEN {[status |-> "returned", summary |-> base @@ financial]}
        ELSE {[status |-> "returned", summary |-> base @@ financial @@ ranked(ranking)] :
                 ranking \in CategoryRankings(rows, {rows[i]["category"] : i \in DOMAIN rows}
                                                     \ {NA})}

\* prediction tables for the summary: the first k of seven categories, one
\* or two products each, scored from a grid shifted by s; with every column,
\* or without category, risk_score or price
SummaryFrames ==
    LET names == <<"Electronics", "Grocery", "Toys", "Clothing", "Home", "Sports", "Garden">>
        grid == << Q(0), <<3, 10>>, <<1, 2>>, <<7, 10>>, <<9, 10>>, <<1, 5>>, <<3, 5>> >>
        product(i, s, price) ==
            [category |-> names[i], risk_score |-> grid[((i * s + s) % 7) + 1],
             current_stock |-> Q(i), price |-> Q(price)]
        products(k, s) ==
            [j \in 1..(2 * k) |->
                IF j <= k THEN product(j, s, 10)
                ELSE [product(j - k, s + 2, 20) EXCEPT !.category = names[((j - k) % 3) + 1]]]
        all == {"category", "risk_score", "current_stock", "price"}
    IN  {[cols |-> cols,
          rows |-> [j \in 1..(2 * k) |-> [c \in cols |-> products(k, s)[j][c]]]] :
            k \in 0..7, s \in 0..6,
            cols \in {all, all \ {"category"}, all \ {"risk_score"}, all \ {"price"}}}

\* generate_executive_summary on a live explainer
ExecutiveSummaryCall(predictions_df) ==
    /\ expl.live
    /\ \E out \in GenerateExecutiveSummary(predictions_df, now) :
           last' = [op |-> "generate_executive_summary", predictions |-> predictions_df,
                    out |-> out]
    /\ UNCHANGED <<disk, svc, expl, mdl, done, now, memo, hist, retry, jobs>>

NextSummary ==
    \/ TrainAndSave(TableNamed("full"), "random_forest")
    \/ ConstructExplainer
    \/ \E predictions_df \in SummaryFrames : ExecutiveSummaryCall(predictions_df)

SpecSummary == Init /\ [][NextSummary]_vars

(***************************************************************************)
(* The service with one predict_single_product call kept for comparison    *)
(***************************************************************************)
\* complete product dicts, with a category seen or unseen in training
IdemInputs ==
    {p \in SingleInputs :
        /\ {"current_stock", "avg_daily_demand", "supplier_lead_time",
            "days_since_restock"} \subseteq DOMAIN p
        /\ p["current_stock"] \in {Q(5), Q(21)}
        /\ p["avg_daily_demand"] = Q(5)
        /\ p["supplier_lead_time"] \in {Q(3), Q(7)}}

\* the inventories of at most one row
SmallInventories == {inv \in Inventories : Len(inv.rows) <= 1}

NextIdem ==
    \/ \E run \in ServiceTrainings : TrainAndSave(TableNamed(run[1]), run[2])
    \/ ConstructPredictor
    \/ ReloadModel
    \/ \E p \in IdemInputs, keep \in BOOLEAN : PredictSingle(p, keep)
    \/ \E inv \in SmallInventories : PredictBatchCall(inv, NoSales)

SpecIdem == Init /\ [][NextIdem]_vars

(***************************************************************************)
(* The service asked about one product both ways: predict_single_product   *)
(* on the dict, predict_batch on the one-row table holding it              *)
(***************************************************************************)
\* the products of the catalog, and each without its avg_daily_demand
PairProducts ==
    {Catalog[i] : i \in DOMAIN Catalog}
    \cup {DropCol(Catalog[i], "avg_daily_demand") : i \in DOMAIN Catalog}

NextPair ==
    \/ \E run \in ServiceTrainings : TrainAndSave(TableNamed(run[1]), run[2])
    \/ ConstructPredictor
    \/ \E p \in PairProducts : PredictSingle(p, TRUE)
    \/ \E p \in PairProducts : PredictBatchCall(FrameOfDicts(<<p>>), NoSales)

SpecPair == Init /\ [][NextPair]_vars

(***************************************************************************)
(* Properties of the prediction service                                    *)
(***************************************************************************)
SingleCall == last.op = "predict_single_product"
BatchCall == last.op = "predict_batch"
Returned == last.out.status = "returned"
Present(d, k) == k \in DOMAIN d /\ IsFinite(d[k])
InUnit(x) == ~IsNaN(x) /\ RLe(Q(0), x) /\ RLe(x, Q(1))

\* C1: predict_single_product returns an assessment for every product record
\* it is given, also one that omits current_stock, avg_daily_demand or
\* supplier_lead_time, and never raises to the caller.  Stated here for the
\* records whose supplier_lead_time is not zero, so that a violation does not
\* rest on the zero divisor of the fallback.
C1_AlwaysAnAssessment ==
    (SingleCall /\ ("supplier_lead_time" \in DOMAIN last.input
                        => last.input["supplier_lead_time"] # Q(0)))
        => Returned

\* C2: whenever the model path raises inside predict_single_product or
\* predict_batch, the fallback computes its score without raising, for every
\* current_stock, avg_daily_demand and supplier_lead_time (zero included),
\* and leaves the loaded artifact as it was.
C2_FallbackNeverRaises ==
    ((SingleCall \/ BatchCall) /\ last.out.via = "fallback")
        => (Returned /\ last.out.model_data = last.loaded)

\* C3: if the model path raises during predict_batch, the returned table has
\* exactly one assessment per input inventory row, with or without a
\* sales_history, and every risk_score in it lies in [0,1].
C3_OneAssessmentPerRow ==
    (BatchCall /\ last.out.via = "fallback")
        => /\ Returned
           /\ Len(last.out.rows) = Len(last.input.rows)
           /\ \A i \in DOMAIN last.input.rows :
                  Cardinality({j \in DOMAIN last.out.rows :
                      last.out.rows[j]["product_id"] = last.input.rows[i]["product_id"]}) = 1
           /\ \A j \in DOMAIN last.out.rows : InUnit(last.out.rows[j]["risk_score"])

\* the heuristic as the specification words it
Clamp01(x) == IF RLt(x, Q(0)) THEN Q(0) ELSE IF RGt(x, Q(1)) THEN Q(1) ELSE x
HeuristicScore(current_stock, avg_daily_demand, lead_time) ==
    LET stock_days == RDiv(current_stock,
                           IF RGt(avg_daily_demand, Q(1)) THEN avg_daily_demand ELSE Q(1))
    IN  Clamp01(RSub(Q(1), RDiv(stock_days, RMul(Q(2), lead_time))))
Given(d) ==
    /\ Present(d, "current_stock")
    /\ Present(d, "avg_daily_demand")
    /\ Present(d, "supplier_lead_time")
    /\ RGt(d["supplier_lead_time"], Q(0))
HeuristicRow(d, score, level, label) ==
    /\ Given(d) => score = HeuristicScore(d["current_stock"], d["avg_daily_demand"],
                                          d["supplier_lead_time"])
    /\ level = "High" <=> RGt(score, <<1, 2>>)
    /\ label = 1 <=> RGt(score, <<1, 2>>)
\* the row of the prepared frame the fallback reads for an output row
PreparedRowOf(r) ==
    LET df == PreparePredictionData(last.input, last.sales).df
    IN  df.rows[CHOOSE i \in DOMAIN df.rows : df.rows[i]["product_id"] = r["product_id"]]

\* C4: on the fallback path the risk score equals
\* clamp(1 - stock_days / (2 x supplier_lead_time), 0, 1) with
\* stock_days = current_stock / max(avg_daily_demand, 1), for the record the
\* fallback reads (the product dict, or the product's row of the prepared
\* batch) whenever it carries the three fields and a positive lead time; and
\* the product is labelled high risk (risk_level 'High', risk_prediction 1)
\* exactly when the score is strictly greater than 0.5.
C4_FallbackFormula ==
    /\ (SingleCall /\ Returned /\ last.out.via = "fallback")
           => HeuristicRow(last.input, last.out.result.risk_score,
                           last.out.result.risk_level,
                           IF last.out.result.risk_level = "High" THEN 1 ELSE 0)
    /\ (BatchCall /\ Returned /\ last.out.via = "fallback")
           => \A j \in DOMAIN last.out.rows :
                  HeuristicRow(PreparedRowOf(last.out.rows[j]),
                               last.out.rows[j]["risk_score"],
                               last.out.rows[j]["risk_level"],
                               last.out.rows[j]["risk_prediction"])

\* the specification's scenario: stock 5, demand 5, lead time 7 answered by
\* the fallback with 1 - 1/14 and the level High
C4_Witness ==
    /\ SingleCall /\ Returned /\ last.out.via = "fallback"
    /\ Given(last.input)
    /\ last.input["current_stock"] = Q(5)
    /\ last.input["avg_daily_demand"] = Q(5)
    /\ last.input["supplier_lead_time"] = Q(7)
    /\ last.out.result.risk_score = <<13, 14>>
    /\ last.out.result.risk_level = "High"

RiskCategories == {"Low Risk", "Medium Risk", "High Risk"}
RightCategory(score, category) ==
    /\ category \in RiskCategories
    /\ category = "Low Risk" <=> RLt(score, <<3, 10>>)
    /\ category = "Medium Risk" <=> (RLe(<<3, 10>>, score) /\ RLt(score, <<7, 10>>))
    /\ category = "High Risk" <=> RLe(<<7, 10>>, score)
\* the scores 0, 1/20, ..., 1
UnitGrid == {Norm(k, 20) : k \in 0..20}

\* C5: for every risk_score in [0,1] the category is exactly one of the three
\* labels, Low Risk iff score < 0.3, Medium Risk iff 0.3 <= score < 0.7,
\* High Risk iff score >= 0.7; and every assessment predict_single_product or
\* predict_batch returns carries the category of its own risk_score.
C5_CategoryBoundaries ==
    /\ \A x \in UnitGrid : RightCategory(x, CategorizeRisk(x))
    /\ (SingleCall /\ Returned /\ InUnit(last.out.result.risk_score))
           => RightCategory(last.out.result.risk_score, last.out.result.risk_category)
    /\ (BatchCall /\ Returned)
           => \A j \in DOMAIN last.out.rows :
                  InUnit(last.out.rows[j]["risk_score"])
                      => RightCategory(last.out.rows[j]["risk_score"],
                                       last.out.rows[j]["risk_category"])

\* an assessment whose score is exactly the lower boundary 0.3
C5_Witness ==
    /\ SingleCall /\ Returned
    /\ last.out.result.risk_score = <<3, 10>>
    /\ last.out.result.risk_category = "Medium Risk"

\* C6: the output of predict_batch is ordered by risk_score, highest first,
\* and each output row is a whole row of the unsorted result: its risk_score,
\* risk_prediction, risk_level and risk_category are those computed for its
\* own product.
C6_SortedWholeRows ==
    (BatchCall /\ Returned)
        => /\ \A j \in 1..(Len(last.out.rows) - 1) :
                  RLe(last.out.rows[j + 1]["risk_score"], last.out.rows[j]["risk_score"])
           /\ LET unsorted == PredictBatchRows(last.loaded, last.input, last.sales).rows
              IN  /\ Len(unsorted) = Len(last.out.rows)
                  /\ \E f \in Perms(Len(unsorted)) :
                         \A j \in DOMAIN unsorted : last.out.rows[j] = unsorted[f[j]]

\* the specification's scenario: heuristic scores 0.2, 0.9, 0.5 in input
\* order come out as 0.9, 0.5, 0.2
C6_Witness ==
    /\ BatchCall /\ Returned /\ last.out.via = "fallback"
    /\ [i \in DOMAIN last.input.rows |-> last.input.rows[i]["product_id"]] = <<"P1", "P2", "P3">>
    /\ [j \in DOMAIN last.out.rows |-> last.out.rows[j]["product_id"]] = <<"P2", "P3", "P1">>
    /\ [j \in DOMAIN last.out.rows |-> last.out.rows[j]["risk_score"]]
           = << <<9, 10>>, <<1, 2>>, <<1, 5>> >>

\* two answers of predict_single_product that a caller cannot tell apart
SameAssessment(a, b) ==
    /\ a.status = b.status
    /\ a.status = "returned"
           => /\ a.result.risk_score = b.result.risk_score
              /\ a.result.risk_level = b.result.risk_level
              /\ a.result.risk_category = b.result.risk_category
    /\ a.status = "raised" => a.err = b.err

\* C7: two predict_single_product calls with identical input and no load of
\* an artifact between them give the identical risk_score, risk_level and
\* risk_category, whatever predict_* calls on other products happen in
\* between.
C7_Idempotent ==
    (SingleCall /\ memo.set /\ memo.again) => SameAssessment(memo.out, last.out)

\* the kept call repeated after calls on other products, answered by the
\* model for a product whose category training never saw
C7_Witness ==
    /\ SingleCall /\ Returned /\ last.out.via = "model"
    /\ memo.set /\ memo.again /\ memo.between
    /\ last.input["category"] = "Toys"

C9_MissingArtifactIsFatal ==
    /\ (last.op \in {"StockSensePredictor", "StockSenseExplainer"} /\ last.file = Absent)
           => (last.out.status = "raised" /\ last.out.err = "FileNotFoundError")
    /\ (last.op = "StockSensePredictor" /\ last.file = Absent) => ~svc.live
    /\ (last.op = "StockSenseExplainer" /\ last.file = Absent) => ~expl.live
    /\ SingleCall => last.loaded.kind = "artifact"

\* the constructor of the Prediction Service has raised FileNotFoundError
C9_Witness ==
    /\ last.op = "StockSensePredictor" /\ last.file = Absent
    /\ last.out.status = "raised" /\ last.out.err = "FileNotFoundError"
    /\ ~svc.live

\* C10: StockSenseModel.predict called before any train or load_model has
\* completed fails with the not-trained error instead of returning a
\* prediction, and so do save_model and get_feature_importance; each such
\* rejected call leaves model, scaler, encoders, feature_names and is_trained
\* (and the artifact file) unchanged.
C10_RejectedBeforeTraining ==
    (last.op \in {"predict", "save_model", "get_feature_importance"} /\ done = {})
        => /\ last.out.status = "raised"
           /\ last.out.err = "ValueError"
           /\ last.out.at = last.op
           /\ mdl = last.before
           /\ last.op = "save_model" => disk = last.file

\* predict rejected on an instance that a failed train has left with fitted
\* encoders but untrained
C10_Witness ==
    /\ last.op = "predict" /\ done = {}
    /\ last.out.status = "raised" /\ last.out.err = "ValueError"
    /\ last.before # NewModel
    /\ mdl = last.before

\* C11: on every predict call of a trained or loaded model the ordered list
\* of feature columns handed to the classifier equals the feature_names
\* frozen at training time, whatever columns the inference records contain,
\* and predict never changes feature_names.
C11_FrozenFeatureOrder ==
    (last.op = "predict" /\ last.before.is_trained)
        => /\ mdl.feature_names = last.before.feature_names
           /\ last.reached => last.handed = last.before.feature_names

\* the encoders of an instance are the four a completed training leaves
EncodersFitted(self) ==
    \A c \in DOMAIN self.encoders : self.encoders[c].present /\ self.encoders[c].fitted
ClassesOf(self, c) == {self.encoders[c].classes[i] : i \in DOMAIN self.encoders[c].classes}
\* the raw categorical values of the records, buckets included
RawOf(data) == EngineerFeatures(data).df
CategoricalCols == {categorical_cols[i] : i \in DOMAIN categorical_cols}

SameTable(a, b) ==
    /\ a.status = b.status
    /\ a.status = "returned"
           => {a.rows[i] : i \in DOMAIN a.rows} = {b.rows[i] : i \in DOMAIN b.rows}
    /\ a.status = "raised" => a.err = b.err

\* C13: predict_single_product, predict_batch and the StockSenseModel.predict
\* they run leave the loaded artifact unchanged (model, every encoder's class
\* list, scaler, feature_names): inference never refits an encoder, so under
\* any interleaving of prediction calls that share one loaded artifact each
\* call returns what it would return alone on the artifact as loaded.
C13_ArtifactUnchanged ==
    /\ svc.live => svc.model_data = memo.loaded
    /\ (SingleCall \/ BatchCall) => last.out.model_data = last.loaded
    /\ SingleCall
           => SameAssessment(last.out, PredictSingleProduct(memo.loaded, last.input))
    /\ BatchCall
           => \E alone \in PredictBatch(memo.loaded, last.input, last.sales) :
                  SameTable(last.out, alone)

\* a call answered by the model for a product whose category training never
\* saw, made after the kept call and calls on other products, with the
\* artifact still as loaded
C13_Witness ==
    /\ SingleCall /\ last.out.status = "returned" /\ last.out.via = "model"
    /\ last.input["category"] = "Toys"
    /\ memo.set /\ memo.between
    /\ memo.loaded.kind = "artifact"
    /\ svc.model_data = memo.loaded

\* the four parts of an artifact that a StockSenseModel instance holds
ArtifactParts(x) ==
    [model |-> x.model, scaler |-> x.scaler, encoders |-> x.encoders,
     feature_names |-> x.feature_names]

\* C14: save_model followed by load_model of the same path on a fresh
\* StockSenseModel restores the whole artifact as one unit: the file holds
\* the model, encoders, scaler (possibly null) and feature_names of the
\* saving instance together with a timestamp, and the loading instance ends
\* with exactly those four and is marked trained.
C14_SaveLoadRoundTrip ==
    /\ (last.op = "save_model" /\ last.out.status = "returned")
           => /\ disk.kind = "artifact"
              /\ ArtifactParts(disk) = ArtifactParts(mdl)
              /\ disk.timestamp = last.clock
    /\ (last.op = "load_model" /\ last.out.status = "returned")
           => /\ ArtifactParts(mdl) = ArtifactParts(disk)
              /\ mdl.is_trained
    /\ disk # Absent => disk.kind = "artifact" /\ disk.timestamp \in 0..now

\* a fresh instance has loaded the artifact of a logistic training, scaler
\* included
C14_Witness ==
    /\ last.op = "load_model" /\ last.out.status = "returned"
    /\ last.before = NewModel
    /\ mdl.scaler # None /\ mdl.model # None
    /\ mdl.is_trained
    /\ ArtifactParts(mdl) = ArtifactParts(disk)

C16_ScalerFollowsLatestTraining ==
    (last.op = "predict" /\ hist.clean /\ hist.latest # None /\ last.encoded # None)
        => /\ last.scaled <=> (hist.latest.model_type = "logistic")
           /\ last.scaled => last.before.scaler = hist.latest.scaler

\* C17: retraining replaces the artifact only as a whole: a train call that
\* raises (for example on an unrecognised algorithm tag or a missing target
\* column) leaves model, scaler, encoders, feature_names and is_trained
\* exactly as they were before the call, and after a train call that
\* returns, model, encoders and feature_names all stem from that same call.
C17_RetrainReplacesWhole ==
    /\ (last.op = "train" /\ last.out.status = "raised") => mdl = last.before
    /\ (last.op = "train" /\ last.out.status = "returned")
           => /\ mdl.is_trained
              /\ mdl.model # None
              /\ mdl.model.algo = last.model_type
              /\ mdl.model.features = mdl.feature_names
              /\ EncodersFitted(mdl)

PrepareCalled == last.op = "prepare_prediction_data"
HasMinBatchCols(df) == MinBatchCols \subseteq df.cols

\* the default prepare_prediction_data documents for a column, given the row
\* as returned
DefaultOf(c, row) ==
    CASE c = "avg_daily_demand" -> Q(10)
      [] c = "demand_std" -> Q(2)
      [] c = "max_daily_demand" -> RMul(Q(2), row["avg_daily_demand"])
      [] c = "total_stockouts" -> Q(0)
      [] c = "price" -> Q(50)
      [] c \in {"category", "subcategory"} -> "General"
      [] c = "seasonal_factor" -> Q(1)
      [] c \in {"weekend_sales_ratio", "holiday_sales_ratio"} -> <<1, 2>>

C19_CoverageGuardsZeroDemand ==
    (PrepareCalled /\ ~last.sales.given /\ HasMinBatchCols(last.input)
     /\ last.out.status = "returned")
        => \A i \in DOMAIN last.out.df.rows :
              LET row == last.out.df.rows[i]
                  coverage == RDiv(row["current_stock"], PyMax(row["avg_daily_demand"], Q(1)))
                  health == EngineerFeatures(last.out.df).df.rows[i]["stock_health_score"]
              IN  /\ row["stock_coverage_days"] = coverage
                  /\ IsFinite(health)
                  /\ health = RDiv(coverage, row["supplier_lead_time"])

ExplainReturned == last.op = "explain_prediction" /\ last.out.status = "returned"

\* what C20 states of an explanation's key_factors, the variability being
\* demand_std divided by `divisor`
KeyFactorsAsStated(key_factors, product_data, demand_std, divisor) ==
    LET current_stock == Get(product_data, "current_stock", Q(0))
        lead_time == Get(product_data, "supplier_lead_time", Q(7))
        min_stock == Get(product_data, "minimum_stock_level", Q(10))
        stock_days == RDiv(current_stock,
                           PyMax(Get(product_data, "avg_daily_demand", Q(1)), Q(1)))
        names == [i \in DOMAIN key_factors |-> key_factors[i].factor]
        grade == <<key_factors[1].status, key_factors[1].impact>>
        below == IF RLt(current_stock, min_stock) THEN <<"Minimum Stock Level">> ELSE <<>>
        varies == IF RGt(RDiv(demand_std, divisor), <<1, 2>>)
                  THEN <<"Demand Variability">> ELSE <<>>
        slow == IF RGt(lead_time, Q(14)) THEN <<"Supplier Lead Time">> ELSE <<>>
    IN  /\ names = <<"Stock Coverage">> \o below \o varies \o slow
        /\ grade = IF RLt(stock_days, lead_time) THEN <<"Critical", "High">>
                   ELSE IF RLt(stock_days, RMul(lead_time, Q(2))) THEN <<"Warning", "Medium">>
                   ELSE <<"Good", "Low">>

ExplainCalled == last.op = "explain_prediction"
StockCoverage(product_data) == IdentifyKeyFactors(product_data)[1]
\* the heuristic of the fallback on the product's own fields
HeuristicOf(product_data) ==
    FallbackScore(Get(product_data, "current_stock", Q(0)),
                  Get(product_data, "avg_daily_demand", Q(1)),
                  Get(product_data, "supplier_lead_time", Q(7)))
Scenario(product_data, stock, demand, lead) ==
    /\ {"current_stock", "avg_daily_demand", "supplier_lead_time"} \subseteq DOMAIN product_data
    /\ product_data["current_stock"] = Q(stock)
    /\ product_data["avg_daily_demand"] = Q(demand)
    /\ product_data["supplier_lead_time"] = Q(lead)

\* C21: for every product with a positive lead time the Stock Coverage
\* factor is Critical exactly when the fallback heuristic scores above 0.5
\* and Good exactly when it scores 0; stock 5 / demand 5 / lead time 7 is
\* Critical and High Risk, stock 200 / demand 5 / lead time 7 is Good with
\* score 0.
C21_FactorAgreesWithHeuristic ==
    (ExplainCalled /\ RGt(Get(last.product, "supplier_lead_time", Q(7)), Q(0)))
        => LET factor == StockCoverage(last.product)
               h == HeuristicOf(last.product)
           IN  /\ ~h.raised
               /\ factor.factor = "Stock Coverage"
               /\ (factor.status = "Critical") <=> RGt(h.risk_score, <<1, 2>>)
               /\ (factor.status = "Critical") <=> (FallbackLabel(h.risk_score) = 1)
               /\ (factor.status = "Good") <=> (h.risk_score = Q(0))
               /\ (factor.status = "Good") => CategorizeRisk(h.risk_score) = "Low Risk"
               /\ Scenario(last.product, 5, 5, 7)
                      => factor.status = "Critical"
                         /\ CategorizeRisk(h.risk_score) = "High Risk"
               /\ Scenario(last.product, 200, 5, 7)
                      => factor.status = "Good" /\ h.risk_score = Q(0)
               /\ ExplainReturned => last.out.explanation.key_factors[1] = factor

\* an explanation of a product whose coverage equals its lead time exactly:
\* the factor is Warning and the heuristic scores exactly 0.5
C21_Witness ==
    /\ ExplainReturned
    /\ last.out.explanation.key_factors[1].status = "Warning"
    /\ HeuristicOf(last.product).risk_score = <<1, 2>>

Suggested(what) ==
    LET suggestions == last.out.explanation.improvement_suggestions
    IN  {suggestions[i].value : i \in {j \in DOMAIN suggestions : suggestions[j].msg = what}}
FactorNames ==
    {last.out.explanation.key_factors[i].factor : i \in DOMAIN last.out.explanation.key_factors}

\* C22: the suggested order quantity holds the one-week buffer (7 x
\* avg_daily_demand) only when the risk is high (risk_score > 0.7); otherwise
\* it is max(0, safety_stock - current_stock) as an integer, with
\* safety_stock = avg_daily_demand x lead_time x 1.5.
C22_BufferOnlyWhenHighRisk ==
    ExplainReturned
        => LET current_stock == Get(last.product, "current_stock", Q(0))
               daily_demand == Get(last.product, "avg_daily_demand", Q(1))
               lead_time == Get(last.product, "supplier_lead_time", Q(7))
               safety_stock == RMul(RMul(daily_demand, lead_time), <<3, 2>>)
               shortfall == RSub(safety_stock, current_stock)
               high == RGt(Get(last.result, "risk_score", Q(0)), <<7, 10>>)
               quantity == IF high THEN RAdd(shortfall, RMul(daily_demand, Q(7)))
                           ELSE PyMax(Q(0), shortfall)
           IN  Suggested("order_quantity") \subseteq {Q(PyInt(quantity))}

\* C23: the shorter-lead-time suggestions appear exactly when the Supplier
\* Lead Time factor appears, and the demand-forecasting suggestions exactly
\* when the Demand Variability factor appears.
C23_SuggestionsFollowFactors ==
    ExplainReturned
        => /\ (Suggested("shorter_lead_times") # {}) <=> ("Supplier Lead Time" \in FactorNames)
           /\ (Suggested("local_suppliers") # {}) <=> ("Supplier Lead Time" \in FactorNames)
           /\ (Suggested("demand_forecasting") # {}) <=> ("Demand Variability" \in FactorNames)
           /\ (Suggested("demand_patterns") # {}) <=> ("Demand Variability" \in FactorNames)

\* C30: explain_prediction returns a complete explanation, without raising,
\* for every product with non-negative numeric fields, avg_daily_demand = 0
\* and omitted optional fields included.
C30_ExplainNeverRaises ==
    ExplainCalled
        => /\ last.out.status = "returned"
           /\ DOMAIN last.out.explanation
                  = {"product_info", "risk_assessment", "key_factors",
                     "explanation_narrative", "improvement_suggestions"}
           /\ Len(last.out.explanation.key_factors) >= 1
           /\ Len(last.out.explanation.improvement_suggestions) >= 2

\* C26: a call through retry_on_failure makes at most max_retries (3)
\* attempts, returns the result of the first attempt that succeeds without
\* attempting again, sleeps retry_delay x 2^attempt (1 s, then 2 s) between
\* consecutive attempts, re-raises the failure of the last attempt, and
\* always terminates.
C26_RetryShape ==
    LET n == Len(retry.tried)
        sleeps == IF retry.pc = "attempt" THEN n ELSE IF n = 0 THEN 0 ELSE n - 1
    IN  /\ n <= max_retries
        /\ max_retries = 3
        /\ \A i \in 1..(n - 1) : ~retry.tried[i].ok
        /\ retry.slept = [i \in 1..sleeps |-> retry_delay * (2 ^ (i - 1))]
        /\ retry.slept \in {<<>>, <<1>>, <<1, 2>>}
        /\ retry.pc = "sleep" => ~retry.tried[n].ok /\ n < max_retries
        /\ retry.pc = "done"
               => /\ n >= 1
                  /\ retry.out.status \in {"returned", "raised"}
                  /\ retry.out.status = "returned"
                         => retry.tried[n].ok /\ retry.out.value = retry.tried[n].value
                  /\ retry.out.status = "raised"
                         => /\ n = max_retries
                            /\ ~retry.tried[n].ok
                            /\ retry.out.err = retry.tried[n].err

C26_BoundedRetries ==
    /\ []C26_RetryShape
    /\ (retry.pc = "attempt") ~> (retry.pc = "done")

\* a call whose three attempts failed with different exceptions: slept 1 s
\* and 2 s, and re-raised the third
C26_Witness ==
    /\ retry.pc = "done"
    /\ retry.out = [status |-> "raised", err |-> "APITimeoutError"]
    /\ Len(retry.tried) = 3
    /\ retry.tried[1].err = "RateLimitError"
    /\ retry.slept = <<1, 2>>

Quiescent == \A t \in Threads : jobs[t].pc \in {"idle", "finished"}
\* the instance holds exactly what the training of thread t assigned
WholeFrom(t) ==
    /\ jobs[t].pc = "finished"
    /\ jobs[t].out.status = "returned"
    /\ mdl.model = jobs[t].wrote.model
    /\ mdl.encoders = jobs[t].wrote.encoders
    /\ mdl.feature_names = jobs[t].wrote.feature_names
    /\ jobs[t].model_type = "logistic" => mdl.scaler = jobs[t].wrote.scaler

\* C27: two concurrent train calls on the same StockSenseModel instance never
\* interleave: once both are over, every train call has returned and the
\* model, encoders, scaler and feature_names of the instance all come from
\* one of the trainings.
C27_WritersSerialized ==
    (Quiescent /\ \E t \in Threads : jobs[t].pc = "finished")
        => /\ \A t \in Threads : jobs[t].pc = "finished" => jobs[t].out.status = "returned"
           /\ \E t \in Threads : WholeFrom(t)

DashboardCalled == last.op = "generate_dashboard_data"
DashboardReturned == DashboardCalled /\ last.out.status = "returned"

\* C28: in generate_dashboard_data the High, Medium and Low Risk counts of
\* risk_distribution are non-negative, sum to total_products and count every
\* product of the batch in exactly one bucket, the bucket of its
\* risk_category.
C28_DistributionPartitions ==
    DashboardReturned
        => LET d == last.out.dashboard.risk_distribution
               rows == last.predictions.rows
               bucket(name) == Cardinality({i \in DOMAIN rows :
                                               rows[i]["risk_category"] = name})
           IN  /\ d.high >= 0 /\ d.medium >= 0 /\ d.low >= 0
               /\ d.high + d.medium + d.low = last.out.dashboard.summary.total_products
               /\ last.out.dashboard.summary.total_products = Len(last.input.rows)
               /\ d.high = bucket("High Risk")
               /\ d.medium = bucket("Medium Risk")
               /\ d.low = bucket("Low Risk")

AlertsCalled == last.op = "_generate_alerts"
\* the products of a prediction table that satisfy `test`, in row order
ProductsWhere(predictions, test(_)) ==
    LET picked == SelectSeq(predictions.rows, test)
    IN  [i \in DOMAIN picked |-> picked[i]["product_id"]]
AtRisk(row) == RGt(row["risk_score"], <<4, 5>>)
BelowMinimum(row) ==
    /\ "minimum_stock_level" \in DOMAIN row
    /\ RLt(row["current_stock"], row["minimum_stock_level"])

\* C24: the alerts list never has more than 10 entries; every 'critical'
\* alert (priority high, for the products with risk_score > 0.8, in row
\* order) precedes every 'low_stock' alert (priority medium, for the products
\* with current_stock < minimum_stock_level, in row order); an alert is
\* missing only when 10 alerts precede it.
C24_AlertsCappedCriticalFirst ==
    AlertsCalled
        => LET alerts == last.out
               critical == ProductsWhere(last.predictions, AtRisk)
               low_stock == ProductsWhere(last.predictions, BelowMinimum)
               due == critical \o low_stock
               n == Len(alerts)
           IN  /\ n <= 10
               /\ \A i, j \in 1..n :
                      (alerts[i].type = "low_stock" /\ alerts[j].type = "critical") => j < i
               /\ \A i \in 1..n :
                      /\ alerts[i].type \in {"critical", "low_stock"}
                      /\ alerts[i].priority
                             = IF alerts[i].type = "critical" THEN "high" ELSE "medium"
                      /\ alerts[i].product_id = due[i]
                      /\ (alerts[i].type = "critical") <=> (i <= Len(critical))
               /\ n < Len(due) => n = 10

\* more than ten alerts are due, critical and low-stock ones among the first
\* ten, and a below-minimum product is left without its alert
C24_Witness ==
    /\ AlertsCalled
    /\ Len(ProductsWhere(last.predictions, AtRisk)) \in 1..9
    /\ Len(ProductsWhere(last.predictions, AtRisk))
         + Len(ProductsWhere(last.predictions, BelowMinimum)) > 10
    /\ Len(last.out) = 10
    /\ last.out[10].type = "low_stock"

SummaryCalled == last.op = "generate_executive_summary"
SummaryGiven ==
    SummaryCalled /\ last.out.status = "returned" /\ "overview" \in DOMAIN last.out.summary

\* C25: generate_executive_summary counts every product of the batch in
\* exactly one of high_risk_count, medium_risk_count and low_risk_count (they
\* sum to total_products), by the 0.3 and 0.7 boundaries of risk_category;
\* category_analysis holds at most 5 categories, those with the highest mean
\* risk, in non-increasing order of mean risk.
C25_SummaryCountsAndRanking ==
    SummaryGiven
        => LET o == last.out.summary.overview
               rows == last.predictions.rows
               bucket(name) == Cardinality({i \in DOMAIN rows :
                                               CategorizeRisk(rows[i]["risk_score"]) = name})
               categories == {rows[i]["category"] : i \in DOMAIN rows}
               ranking == last.out.summary.category_analysis
               listed == {ranking[i].category : i \in DOMAIN ranking}
           IN  /\ o.total_products = Len(rows)
               /\ o.high_risk_count + o.medium_risk_count + o.low_risk_count = Len(rows)
               /\ o.high_risk_count = bucket("High Risk")
               /\ o.medium_risk_count = bucket("Medium Risk")
               /\ o.low_risk_count = bucket("Low Risk")
               /\ "category_analysis" \in DOMAIN last.out.summary
                      <=> "category" \in last.predictions.cols
               /\ "category" \in last.predictions.cols
                      => /\ Len(ranking) = IF Cardinality(categories) < 5
                                           THEN Cardinality(categories) ELSE 5
                         /\ listed \subseteq categories
                         /\ Cardinality(listed) = Len(ranking)
                         /\ \A i \in DOMAIN ranking :
                                ranking[i].mean = CategoryMean(rows, ranking[i].category)
                         /\ \A i \in 1..(Len(ranking) - 1) :
                                RLe(ranking[i + 1].mean, ranking[i].mean)
                         /\ \A c \in categories \ listed : \A i \in DOMAIN ranking :
                                RLe(CategoryMean(rows, c), ranking[i].mean)

\* a summary of seven categories: five are listed, two with equal means at
\* the cut, and products in all three buckets
C25_Witness ==
    /\ SummaryGiven
    /\ "category" \in last.predictions.cols
    /\ Cardinality({last.predictions.rows[i]["category"] :
                       i \in DOMAIN last.predictions.rows}) = 7
    /\ Len(last.out.summary.category_analysis) = 5
    /\ last.out.summary.overview.high_risk_count > 0
    /\ last.out.summary.overview.medium_risk_count > 0
    /\ last.out.summary.overview.low_risk_count > 0
    /\ \E c \in {last.predictions.rows[i]["category"] : i \in DOMAIN last.predictions.rows} :
           /\ \A i \in 1..5 : last.out.summary.category_analysis[i].category # c
           /\ CategoryMean(last.predictions.rows, c)
                  = last.out.summary.category_analysis[5].mean

\* predict_batch has answered for the one-row table of the product the kept
\* predict_single_product call was about, and both took the except branch
PairAnswered ==
    /\ last.op = "predict_batch"
    /\ memo.set
    /\ last.input = FrameOfDicts(<<memo.input>>)
    /\ memo.out.via = "fallback" /\ memo.out.status = "returned"
    /\ last.out.via = "fallback" /\ last.out.status = "returned"

\* C29: when the model path fails, predict_single_product on a product and
\* predict_batch on the one-row batch holding that product give the same
\* risk_score, risk_level and risk_category, also for a product without an
\* avg_daily_demand field.
C29_SingleMatchesOneRowBatch ==
    PairAnswered
        => /\ last.out.rows[1]["risk_score"] = memo.out.result.risk_score
           /\ last.out.rows[1]["risk_level"] = memo.out.result.risk_level
           /\ last.out.rows[1]["risk_category"] = memo.out.result.risk_category

====
